---- MODULE Spec2Model ----
(***************************************************************************)
(* gameratez API server (server/index.mjs, server/db.mjs).                 *)
(*                                                                         *)
(* The state is the server's stores: the in-process completion-token map,  *)
(* the entity collections (arrays mirrored to JSON files in flat-file      *)
(* mode, tables in relational mode), the wall clock and the last HTTP      *)
(* response.  Each route handler is one action.                            *)
(*                                                                         *)
(* Strings are sequences of one-character strings, so that trim(),         *)
(* toLowerCase(), slice() and the regular expressions of the source are    *)
(* computed character by character.                                        *)
(***************************************************************************)
EXTENDS Integers, Sequences, FiniteSets, TLC

VARIABLES
    dbEnabled,        \* db.mjs: dbEnabled (DATABASE_URL configured)
    adminToken,       \* process.env.ADMIN_TOKEN, '' when it is not set
    now,              \* Date.now(), in milliseconds
    completeTokens,   \* Map completeToken -> {email, passwordHash, expiresAt}
    users,            \* Map email -> user (users table, email PRIMARY KEY)
    issued,           \* number of tokens generateToken() has produced
    rates,            \* array of rates, newest first (rates table)
    follows,          \* array of {followerUsername, followeeUsername}
    likes,            \* array of {rateId, username}
    bookmarks,        \* array of {rateId, username}
    comments,         \* array of comments
    notifications,    \* array of notifications, newest first
    reports,          \* array of reports
    created,          \* number of ids made so far, per kind of entity
    disk,             \* the JSON files under data/, by file
    resp,             \* the last response sent: the route, the status, the body
    inflight,         \* the requests being handled, each at one of its awaits
    toast             \* ErrorToastProvider of the client: its state, ref and timers

authVars  == <<completeTokens, users, issued>>
storeVars == <<rates, follows, likes, bookmarks, comments, notifications, reports, created>>
vars == <<dbEnabled, adminToken, now, completeTokens, users, issued, rates, follows, likes,
          bookmarks, comments, notifications, reports, created, disk, resp,
          inflight, toast>>

----------------------------------------------------------------------------
(* Bounds of the model.                                                    *)

MaxTicks == 2
MaxTokens == 2
MaxRates == 2
MaxLikes == 2
MaxBookmarks == 2
MaxComments == 1
MaxFollows == 2
MaxReports == 1
MaxShows == 3
MaxClock == 12500
ClockStep == 2500
MaxNotifs == 2

----------------------------------------------------------------------------
(* Strings.                                                                *)

Max(S) == CHOOSE x \in S : \A y \in S : y <= x

\* String.prototype.toLowerCase on the model's alphabet
LowerChar(c) ==
    CASE c = "A" -> "a"
      [] c = "B" -> "b"
      [] c = "F" -> "f"
      [] c = "X" -> "x"
      [] OTHER -> c

toLowerCase(s) == [i \in 1..Len(s) |-> LowerChar(s[i])]

RECURSIVE trimStart(_)
trimStart(s) == IF s # <<>> /\ Head(s) = " " THEN trimStart(Tail(s)) ELSE s

RECURSIVE trimEnd(_)
trimEnd(s) ==
    IF s # <<>> /\ s[Len(s)] = " " THEN trimEnd(SubSeq(s, 1, Len(s) - 1)) ELSE s

\* String.prototype.trim
trim(s) == trimEnd(trimStart(s))

\* s.replace(/^@/, '')
stripAt(s) == IF s # <<>> /\ Head(s) = "@" THEN Tail(s) ELSE s

\* one or more characters, none of them white space or "@": [^\s@]+
NoSpaceNoAt(s) == s # <<>> /\ \A i \in 1..Len(s) : s[i] \notin {" ", "@"}

\* /^[^\s@]+@[^\s@]+\.[^\s@]+$/.test(e)
emailSyntaxOk(e) ==
    \E i \in 1..Len(e), j \in 1..Len(e) :
        /\ i < j
        /\ e[i] = "@"
        /\ e[j] = "."
        /\ NoSpaceNoAt(SubSeq(e, 1, i - 1))
        /\ NoSpaceNoAt(SubSeq(e, i + 1, j - 1))
        /\ NoSpaceNoAt(SubSeq(e, j + 1, Len(e)))

\* /@([^@]+)$/.exec(email), then match[1].trim().toLowerCase()
emailDomain(e) ==
    LET ats == {i \in 1..Len(e) : e[i] = "@"}
    IN  IF ats = {} \/ Max(ats) = Len(e)
        THEN <<>>
        ELSE toLowerCase(trim(SubSeq(e, Max(ats) + 1, Len(e))))

\* crypto sha256 digest: a different digest for each password of the model
hashPassword(p) == <<"sha256">> \o p

----------------------------------------------------------------------------
(* Maps (JavaScript Map, a table keyed by its primary key).                *)

mapGet(m, k) == m[k]
mapHas(m, k) == k \in DOMAIN m
mapSet(m, k, v) == [x \in DOMAIN m \cup {k} |-> IF x = k THEN v ELSE m[x]]
mapDelete(m, k) == [x \in DOMAIN m \ {k} |-> m[x]]

\* res.status(status).json(body)
Reply(op, status, body) ==
    resp' = [op |-> op, status |-> status, body |-> body]

NoBody == <<>>

----------------------------------------------------------------------------
(* Inputs of the signup flow.                                              *)

axy  == <<"a", "@", "x", ".", "y">>            \* a@x.y
AXY  == <<" ", "A", "@", "X", ".", "y">>       \* " A@X.y": the same mailbox
bxy  == <<"b", "@", "x", ".", "y">>            \* b@x.y
anoy == <<"a", "@", "n", ".", "y">>            \* a@n.y: n.y has no MX record
ax   == <<"a", "@", "x">>                      \* a@x: no dot after the @

EmailInputs == {<<>>, axy, AXY, bxy, anoy, ax}

SignupRequest(email, password, lookupFails) ==
    [email |-> email, password |-> password, lookupFails |-> lookupFails]

\* the signup requests of the model: each email with a password and a DNS
\* lookup that works, a request without a password, a lookup that fails
SignupRequests ==
    {SignupRequest(e, <<"p">>, FALSE) : e \in EmailInputs}
    \cup {SignupRequest(axy, <<>>, FALSE), SignupRequest(axy, <<"p">>, TRUE)}

bob   == <<"b", "o", "b">>
Bob   == <<"B", "o", "b">>
atbob == <<"@", "b", "o", "b">>
amy   == <<"a", "m", "y">>

\* the domains for which dns.promises.resolveMx returns records
MxDomains == {<<"x", ".", "y">>}

\* dns.promises.resolveMx(domain): the number of MX records it returns; a
\* lookup that fails throws, which isRealEmailDomain catches
resolveMx(domain, lookupFails) ==
    IF lookupFails THEN 0 ELSE IF domain \in MxDomains THEN 1 ELSE 0

\* crypto.randomBytes(32).toString('hex'): the n-th token, unlike the others
generateToken(n) == <<"token", n>>

TokenInputs == {<<>>} \cup {generateToken(n) : n \in 1..MaxTokens}

CompleteRequest(completeToken, displayName, username) ==
    [completeToken |-> completeToken, displayName |-> displayName,
     username |-> username]

\* the completion requests of the model: each token with each handle, and
\* requests that lack a field or write the handle with an @
CompleteRequests ==
    {CompleteRequest(generateToken(n), <<"A">>, u) :
        n \in 1..MaxTokens, u \in {bob, Bob, amy}}
    \cup {CompleteRequest(<<>>, <<"A">>, bob),
          CompleteRequest(generateToken(1), <<>>, bob),
          CompleteRequest(generateToken(1), <<"A">>, <<>>),
          CompleteRequest(generateToken(1), <<"A">>, atbob)}

\* 10 * 60 * 1000 milliseconds
TokenTtl == 10 * 60 * 1000

\* the clock advances by the life of a token
TickStep == TokenTtl

----------------------------------------------------------------------------
(* POST /api/auth/signup                                                   *)

isRealEmailDomain(email, lookupFails) ==
    LET domain == emailDomain(email)
    IN  IF domain = <<>> THEN FALSE ELSE resolveMx(domain, lookupFails) > 0

\* mutant: the check for an existing account is left out
emailRegisteredNever(email) == FALSE

\* users.has(normalizedEmail) / SELECT 1 FROM users WHERE email = $1
emailRegistered(email) == mapHas(users, email)

\* the status of the signup request: 200 when a token is issued
signupStatus(email, password, lookupFails) ==
    LET normalizedEmail == toLowerCase(trim(email))
    IN  IF email = <<>> \/ password = <<>> THEN 400
        ELSE IF ~emailSyntaxOk(normalizedEmail) THEN 400
        ELSE IF ~isRealEmailDomain(normalizedEmail, lookupFails) THEN 400
        ELSE IF emailRegistered(normalizedEmail) THEN 409
        ELSE 200

signupError(email, password, lookupFails) ==
    LET normalizedEmail == toLowerCase(trim(email))
    IN  IF email = <<>> \/ password = <<>> THEN "Email and password required"
        ELSE IF ~emailSyntaxOk(normalizedEmail)
             THEN "Please enter a valid email address."
        ELSE IF ~isRealEmailDomain(normalizedEmail, lookupFails)
             THEN "Please use an email address from a real email provider (this domain does not accept email)."
        ELSE "An account with this email already exists"

Signup(email, password, lookupFails) ==
    LET normalizedEmail == toLowerCase(trim(email))
        status == signupStatus(email, password, lookupFails)
        completeToken == generateToken(issued + 1)
    IN  /\ IF status = 200
           THEN /\ issued < MaxTokens
                /\ issued' = issued + 1
                /\ completeTokens' =
                       mapSet(completeTokens, completeToken,
                              [email |-> normalizedEmail,
                               passwordHash |-> hashPassword(password),
                               expiresAt |-> now + TokenTtl])
                /\ Reply("signup", 200,
                         [email |-> normalizedEmail, completeToken |-> completeToken])
           ELSE /\ Reply("signup", status, signupError(email, password, lookupFails))
                /\ UNCHANGED <<issued, completeTokens>>
        /\ UNCHANGED <<dbEnabled, adminToken, inflight, toast, now, users, disk>>
        /\ UNCHANGED storeVars

----------------------------------------------------------------------------
(* POST /api/auth/complete                                                 *)

\* mutant: the expiry of the token is not checked
tokenNeverExpires(data) == FALSE

\* Date.now() > data.expiresAt
tokenExpired(data) == now > data.expiresAt

\* String(username).trim().replace(/^@/, '')
handleOf(username) == stripAt(trim(username))

\* SELECT 1 FROM users WHERE lower(username) = $1
usernameTaken(handleLower) ==
    \E e \in DOMAIN users : toLowerCase(users[e].username) = handleLower

\* the profile object of the handler; optional request fields are left out
makeProfile(data, displayName, username) ==
    [id |-> <<"profile", now>>,
     email |-> data.email,
     displayName |-> trim(displayName),
     username |-> handleOf(username),
     bio |-> <<>>,
     favoriteGameKinds |-> <<>>,
     feedPreference |-> "all",
     createdAt |-> now,
     platform |-> ""]

\* mutant: the INSERT never meets a row with its email, id or username
insertNeverViolates(profile) == FALSE

\* the users table: id UNIQUE, email PRIMARY KEY, username UNIQUE
insertViolates(profile) ==
    \/ mapHas(users, profile.email)
    \/ \E e \in DOMAIN users :
           users[e].id = profile.id \/ users[e].username = profile.username

\* { ...profile, passwordHash }
withPasswordHash(profile, passwordHash) ==
    [f \in DOMAIN profile \cup {"passwordHash"} |->
        IF f = "passwordHash" THEN passwordHash ELSE profile[f]]

Outcome(status, error, deleteToken, writeUser) ==
    [status |-> status, error |-> error,
     deleteToken |-> deleteToken, writeUser |-> writeUser]

\* relational branch after the profile is built (lines 401-425)
completeDb(profile) ==
    LET handleLower == toLowerCase(trim(profile.username))
    IN  IF handleLower = <<>>
        THEN Outcome(400, "username required", FALSE, FALSE)
        ELSE IF usernameTaken(handleLower)
        THEN Outcome(409, "Username is already taken", TRUE, FALSE)
        ELSE IF insertViolates(profile)
        THEN Outcome(500, "Server error", FALSE, FALSE)
        ELSE Outcome(200, "", TRUE, TRUE)

\* mutant: the user is written and the token is left in the map
completeFileKeepsToken(profile) == Outcome(200, "", FALSE, TRUE)

\* flat-file branch after the profile is built (lines 427-428)
completeFile(profile) == Outcome(200, "", TRUE, TRUE)

\* what the handler decides: the status, and whether it deletes the token
\* and writes the user
completeOutcome(completeToken, displayName, username) ==
    IF completeToken = <<>> \/ displayName = <<>> \/ username = <<>>
    THEN Outcome(400, "completeToken, displayName, and username required",
                 FALSE, FALSE)
    ELSE IF ~mapHas(completeTokens, completeToken)
    THEN Outcome(400, "Invalid or expired session", FALSE, FALSE)
    ELSE LET data == mapGet(completeTokens, completeToken)
         IN  IF tokenExpired(data)
             THEN Outcome(400, "Session expired. Please start again.", TRUE, FALSE)
             ELSE IF emailRegistered(data.email)
             THEN Outcome(409, "Account already completed", TRUE, FALSE)
             ELSE IF dbEnabled
             THEN completeDb(makeProfile(data, displayName, username))
             ELSE completeFile(makeProfile(data, displayName, username))

\* saveUsers(): users.json mirrors the map (flat-file mode only)
saveUsers(newUsers) == [disk EXCEPT !.users = newUsers]

Complete(completeToken, displayName, username) ==
    LET out == completeOutcome(completeToken, displayName, username)
        data == mapGet(completeTokens, completeToken)
        profile == makeProfile(data, displayName, username)
    IN  /\ IF out.writeUser
           THEN /\ users' = mapSet(users, data.email,
                                   withPasswordHash(profile, data.passwordHash))
                /\ disk' = IF dbEnabled THEN disk ELSE saveUsers(users')
                /\ Reply("complete", 200, profile)
           ELSE /\ UNCHANGED <<users, disk>>
                /\ Reply("complete", out.status, out.error)
        /\ completeTokens' = IF out.deleteToken
                             THEN mapDelete(completeTokens, completeToken)
                             ELSE completeTokens
        /\ UNCHANGED <<dbEnabled, adminToken, inflight, toast, now, issued>>
        /\ UNCHANGED storeVars

\* A completion request from one await to the next.  The flat-file branch
\* awaits nothing and runs whole when the request is received; the
\* relational branch stops at its three queries, and data and profile are
\* the handler's own constants.

completeReceived(s, completeToken, displayName, username) ==
    LET q == [pc |-> "done", op |-> "complete", completeToken |-> completeToken,
              displayName |-> displayName, username |-> username,
              valid |-> FALSE, data |-> <<>>, profile |-> <<>>, status |-> 400]
        data == mapGet(completeTokens, completeToken)
        profile == makeProfile(data, displayName, username)
    IN  /\ inflight[s].pc = "idle"
        /\ IF completeToken = <<>> \/ displayName = <<>> \/ username = <<>>
           THEN /\ inflight' = [inflight EXCEPT ![s] = q]
                /\ Reply("complete", 400,
                         "completeToken, displayName, and username required")
                /\ UNCHANGED <<completeTokens, users, disk>>
           ELSE IF ~mapHas(completeTokens, completeToken)
           THEN /\ inflight' = [inflight EXCEPT ![s] = q]
                /\ Reply("complete", 400, "Invalid or expired session")
                /\ UNCHANGED <<completeTokens, users, disk>>
           ELSE IF tokenExpired(data)
           THEN /\ inflight' = [inflight EXCEPT ![s] = q]
                /\ completeTokens' = mapDelete(completeTokens, completeToken)
                /\ Reply("complete", 400, "Session expired. Please start again.")
                /\ UNCHANGED <<users, disk>>
           ELSE IF dbEnabled
           THEN /\ inflight' = [inflight EXCEPT ![s] =
                       [q EXCEPT !.pc = "selectEmail", !.valid = TRUE,
                                 !.data = data, !.status = 0]]
                /\ UNCHANGED <<completeTokens, users, disk, resp>>
           ELSE IF mapHas(users, data.email)
           THEN /\ inflight' = [inflight EXCEPT ![s] =
                       [q EXCEPT !.valid = TRUE, !.data = data, !.status = 409]]
                /\ completeTokens' = mapDelete(completeTokens, completeToken)
                /\ Reply("complete", 409, "Account already completed")
                /\ UNCHANGED <<users, disk>>
           ELSE /\ inflight' = [inflight EXCEPT ![s] =
                       [q EXCEPT !.valid = TRUE, !.data = data,
                                 !.profile = profile, !.status = 200]]
                /\ users' = mapSet(users, data.email,
                                   withPasswordHash(profile, data.passwordHash))
                /\ disk' = saveUsers(users')
                /\ completeTokens' = mapDelete(completeTokens, completeToken)
                /\ Reply("complete", 200, profile)
        /\ UNCHANGED <<adminToken, dbEnabled, toast, now, issued>>
        /\ UNCHANGED storeVars

\* SELECT 1 FROM users WHERE email = $1, then the profile is built
completeSelectEmail(s) ==
    LET q == inflight[s]
        profile == makeProfile(q.data, q.displayName, q.username)
    IN  /\ q.pc = "selectEmail"
        /\ IF mapHas(users, q.data.email)
           THEN /\ inflight' = [inflight EXCEPT ![s].pc = "done", ![s].status = 409]
                /\ completeTokens' = mapDelete(completeTokens, q.completeToken)
                /\ Reply("complete", 409, "Account already completed")
           ELSE IF toLowerCase(trim(profile.username)) = <<>>
           THEN /\ inflight' = [inflight EXCEPT ![s].pc = "done", ![s].status = 400]
                /\ Reply("complete", 400, "username required")
                /\ UNCHANGED completeTokens
           ELSE /\ inflight' = [inflight EXCEPT ![s].pc = "selectUsername",
                                                ![s].profile = profile]
                /\ UNCHANGED <<completeTokens, resp>>
        /\ UNCHANGED <<adminToken, dbEnabled, toast, now, issued, users, disk>>
        /\ UNCHANGED storeVars

\* SELECT 1 FROM users WHERE lower(username) = $1
completeSelectUsername(s) ==
    LET q == inflight[s]
    IN  /\ q.pc = "selectUsername"
        /\ IF usernameTaken(toLowerCase(trim(q.profile.username)))
           THEN /\ inflight' = [inflight EXCEPT ![s].pc = "done", ![s].status = 409]
                /\ completeTokens' = mapDelete(completeTokens, q.completeToken)
                /\ Reply("complete", 409, "Username is already taken")
           ELSE /\ inflight' = [inflight EXCEPT ![s].pc = "insertUser"]
                /\ UNCHANGED <<completeTokens, resp>>
        /\ UNCHANGED <<adminToken, dbEnabled, toast, now, issued, users, disk>>
        /\ UNCHANGED storeVars

\* INSERT INTO users, then completeTokens.delete and the answer; an INSERT
\* that throws is answered 500 by the catch block
completeInsert(s) ==
    LET q == inflight[s]
    IN  /\ q.pc = "insertUser"
        /\ IF insertViolates(q.profile)
           THEN /\ inflight' = [inflight EXCEPT ![s].pc = "done", ![s].status = 500]
                /\ Reply("complete", 500, "Server error")
                /\ UNCHANGED <<completeTokens, users>>
           ELSE /\ inflight' = [inflight EXCEPT ![s].pc = "done", ![s].status = 200]
                /\ users' = mapSet(users, q.data.email,
                                   withPasswordHash(q.profile, q.data.passwordHash))
                /\ completeTokens' = mapDelete(completeTokens, q.completeToken)
                /\ Reply("complete", 200, q.profile)
        /\ UNCHANGED <<adminToken, dbEnabled, toast, now, issued, disk>>
        /\ UNCHANGED storeVars

----------------------------------------------------------------------------
(* POST /api/auth/login                                                    *)

\* password_hash NULL / passwordHash: null, an account without a password
null == <<>>

\* mutant: every password is taken for the right one
digestAlwaysMatches(password, passwordHash) == TRUE

\* the negation of hashPassword(password) !== passwordHash
digestMatches(password, passwordHash) == hashPassword(password) = passwordHash

\* const { passwordHash, ...profile } = user; in relational mode the object
\* built from the columns of the row other than password_hash
profileWithoutPassword(user) ==
    [f \in DOMAIN user \ {"passwordHash"} |-> user[f]]

Login(email, password) ==
    LET normalizedEmail == toLowerCase(trim(email))
    IN  /\ IF email = <<>> \/ password = <<>>
           THEN Reply("login", 400, "Email and password required")
           ELSE IF ~mapHas(users, normalizedEmail)
           THEN Reply("login", 401, "Invalid email or password")
           ELSE IF mapGet(users, normalizedEmail).passwordHash = null
           THEN Reply("login", 400,
                      "This account uses Google sign-in. Use Continue with Google.")
           ELSE IF ~digestMatches(password, mapGet(users, normalizedEmail).passwordHash)
           THEN Reply("login", 401, "Invalid email or password")
           ELSE Reply("login", 200,
                      [success |-> TRUE,
                       profile |-> profileWithoutPassword(
                                       mapGet(users, normalizedEmail))])
        /\ UNCHANGED <<dbEnabled, adminToken, inflight, toast, now, disk>>
        /\ UNCHANGED authVars
        /\ UNCHANGED storeVars

----------------------------------------------------------------------------
(* ErrorToastProvider (src/contexts/ErrorToastContext.tsx)                 *)

AUTO_DISMISS_MS == 5000

\* msg ?? fallback, for a message that is undefined or a non-empty string
nullish(msg, fallback) == IF msg = null THEN fallback ELSE msg

\* mutant: the timer stays pending
clearTimeoutKeeps(timers, id) == timers

\* clearTimeout(id): the timer with that id is no longer pending
clearTimeout(timers, id) == {t \in timers : t.id # id}

\* the body shared by showError and showSuccess
show(msg, fallback, isError) ==
    /\ toast.made < MaxShows
    /\ toast' = [toast EXCEPT
                   !.timers = (IF toast.timerRef # 0
                               THEN clearTimeout(toast.timers, toast.timerRef)
                               ELSE toast.timers)
                              \cup {[id |-> toast.made + 1,
                                     due |-> toast.clock + AUTO_DISMISS_MS]},
                   !.message = nullish(msg, fallback),
                   !.isError = isError,
                   !.timerRef = toast.made + 1,
                   !.shownAt = toast.clock,
                   !.made = toast.made + 1]
    /\ UNCHANGED <<dbEnabled, adminToken, inflight, now, disk, resp>>
    /\ UNCHANGED authVars
    /\ UNCHANGED storeVars

showError(msg) ==
    show(msg, <<"S","o","m","e","t","h","i","n","g"," ","w","e","n","t"," ",
                "w","r","o","n","g">>, TRUE)

showSuccess(msg) == show(msg, <<"S","u","c","c","e","s","s">>, FALSE)

\* the Dismiss button, rendered while there is a message
dismiss ==
    /\ toast.message # null
    /\ toast' = [toast EXCEPT
                   !.timers = IF toast.timerRef # 0
                              THEN clearTimeout(toast.timers, toast.timerRef)
                              ELSE toast.timers,
                   !.timerRef = 0,
                   !.message = null]
    /\ UNCHANGED <<dbEnabled, adminToken, inflight, now, disk, resp>>
    /\ UNCHANGED authVars
    /\ UNCHANGED storeVars

\* the callback given to setTimeout runs when its delay has passed
timerFires ==
    /\ \E t \in toast.timers :
          /\ t.due <= toast.clock
          /\ toast' = [toast EXCEPT !.timers = toast.timers \ {t},
                                    !.timerRef = 0,
                                    !.message = null]
    /\ UNCHANGED <<dbEnabled, adminToken, inflight, now, disk, resp>>
    /\ UNCHANGED authVars
    /\ UNCHANGED storeVars

\* time passes in the browser, up to the next timer that is due
timePasses ==
    /\ toast.clock < MaxClock
    /\ \A t \in toast.timers : t.due > toast.clock
    /\ \E next \in {toast.clock + ClockStep} \cup {t.due : t \in toast.timers} :
          /\ \A t \in toast.timers : next <= t.due
          /\ next <= toast.clock + ClockStep
          /\ toast' = [toast EXCEPT !.clock = next]
    /\ UNCHANGED <<dbEnabled, adminToken, inflight, now, disk, resp>>
    /\ UNCHANGED authVars
    /\ UNCHANGED storeVars

----------------------------------------------------------------------------
(* The clock.                                                              *)

Tick ==
    /\ now < MaxTicks * TickStep
    /\ now' = now + TickStep
    /\ UNCHANGED <<dbEnabled, adminToken, inflight, toast, disk, resp>>
    /\ UNCHANGED authVars
    /\ UNCHANGED storeVars

----------------------------------------------------------------------------
(* Dates and identifiers.                                                  *)

\* the value Number.isNaN() recognises
NaN == -1

\* new Date(ms).toISOString()
toISOString(ms) == <<"iso", ms>>

\* new Date(s || 0).getTime(): the milliseconds of an ISO string, 0 for a
\* missing value, NaN for a string that is not a date
getTime(s) ==
    IF s = <<>> THEN 0
    ELSE IF s[1] = "iso" THEN s[2]
    ELSE NaN

\* `${kind}-${Date.now()}-${Math.random().toString(36).slice(2, 9)}`: the
\* n-th identifier of its kind, unlike the others
makeId(kind, n) == <<kind, now, n>>

\* the elements of an array, for array.some(test)
elements(array) == {array[i] : i \in DOMAIN array}

\* array.filter(x => x.rateId === rateId).length
countOfRate(array, rateId) ==
    Cardinality({i \in DOMAIN array : array[i].rateId = rateId})

\* String(x).trim().toLowerCase()
normalize(x) == toLowerCase(trim(x))

\* save*(): the JSON file mirrors the array (flat-file mode only)
saveFile(file, array) ==
    IF dbEnabled THEN disk ELSE [disk EXCEPT ![file] = array]

----------------------------------------------------------------------------
(* POST /api/rates                                                         *)

\* a JSON number with one decimal, counted in tenths
number(whole, tenths) == whole * 10 + tenths

\* what the INT column of the rates table accepts
isInteger(x) == x % 10 = 0

\* Math.min(10, Math.max(1, Number(rating)))
clampRating(x) ==
    IF x < number(1, 0) THEN number(1, 0)
    ELSE IF x > number(10, 0) THEN number(10, 0) ELSE x

\* the request body with a rating that is a JSON number; images, poll and
\* platform are left out
NumberRateRequest(gameName, rating, body, raterHandle, scheduledAt) ==
    [gameName |-> gameName, rating |-> rating, body |-> body,
     raterName |-> <<>>, raterHandle |-> raterHandle, scheduledAt |-> scheduledAt]

\* the request body with a whole rating
RateRequest(gameName, rating, body, raterHandle, scheduledAt) ==
    NumberRateRequest(gameName, number(rating, 0), body, raterHandle, scheduledAt)

postRateError(q) ==
    IF trim(q.gameName) = <<>> THEN "Game name required"
    ELSE IF q.rating < number(1, 0) \/ q.rating > number(10, 0)
         THEN "Rating must be a number between 1 and 10"
    ELSE IF trim(q.body) = <<>> THEN "Review text required"
    ELSE ""

\* the scheduled instant when it is a date in the future, the clock otherwise
rateCreatedAt(scheduledAt) ==
    IF /\ scheduledAt # <<>>
       /\ getTime(scheduledAt) # NaN
       /\ getTime(scheduledAt) > now
    THEN toISOString(getTime(scheduledAt))
    ELSE toISOString(now)

orDefault(s, default) == IF s = <<>> THEN default ELSE s

makeRate(q, n) ==
    [id |-> makeId("rate", n),
     raterName |-> orDefault(trim(q.raterName), <<"G", "u", "e", "s", "t">>),
     raterHandle |-> orDefault(trim(q.raterHandle), <<"g", "u", "e", "s", "t">>),
     gameName |-> trim(q.gameName),
     rating |-> clampRating(q.rating),
     body |-> trim(q.body),
     createdAt |-> rateCreatedAt(q.scheduledAt),
     commentCount |-> 0,
     likeCount |-> 0,
     bookmarkCount |-> 0,
     repostCount |-> 0,
     platform |-> ""]

\* the INSERT of the relational branch throws for a rating that is not a
\* whole number, and the catch block answers 500
PostRate(q) ==
    /\ IF postRateError(q) # ""
       THEN /\ Reply("postRate", 400, postRateError(q))
            /\ UNCHANGED <<rates, created, disk>>
       ELSE IF dbEnabled /\ ~isInteger(clampRating(q.rating))
       THEN /\ Reply("postRate", 500, "Server error")
            /\ UNCHANGED <<rates, created, disk>>
       ELSE /\ created.rate < MaxRates
            /\ created' = [created EXCEPT !.rate = @ + 1]
            /\ rates' = <<makeRate(q, created'.rate)>> \o rates
            /\ disk' = saveFile("rates", rates')
            /\ Reply("postRate", 201, makeRate(q, created'.rate))
    /\ UNCHANGED <<dbEnabled, adminToken, inflight, toast, now, follows, likes, bookmarks, comments,
                   notifications, reports>>
    /\ UNCHANGED authVars

----------------------------------------------------------------------------
(* POST and DELETE /api/rates/:id/like                                     *)

rateExists(rateId) == (\E r \in elements(rates) : r.id = rateId)

findRate(rateId) == rates[CHOOSE i \in DOMAIN rates : rates[i].id = rateId]

\* (rate.raterHandle || '').trim().toLowerCase()
ownerHandle(rateId) == normalize(findRate(rateId).raterHandle)

\* mutant: the likes of every rate are counted
likeCountOfAll(array, rateId) == Len(array)

\* likes.filter(l => l.rateId === rateId).length / SELECT COUNT(*) FROM likes
likeCount(array, rateId) == countOfRate(array, rateId)

\* mutant: a second like of the same pair is not recognised
neverLiked(array, rateId, u) == FALSE

\* likes.some(l => l.rateId === rateId && l.username.toLowerCase() === u);
\* in relational mode the row the INSERT ... ON CONFLICT DO NOTHING skips
hasLike(array, rateId, u) ==
    (\E l \in elements(array) : l.rateId = rateId /\ toLowerCase(l.username) = u)

\* mutant: the like notification is addressed to the user who liked
likeNotificationToActor(rateId, u, n) ==
    [id |-> makeId("notif", n),
     type |-> "like",
     createdAt |-> toISOString(now),
     read |-> FALSE,
     forUsername |-> u,
     actorUsername |-> u,
     rateId |-> rateId,
     gameName |-> findRate(rateId).gameName]

\* the record of notifications.unshift({... type: 'like' ...}) and of the
\* INSERT INTO notifications of the relational branch
likeNotification(rateId, u, n) ==
    [id |-> makeId("notif", n),
     type |-> "like",
     createdAt |-> toISOString(now),
     read |-> FALSE,
     forUsername |-> ownerHandle(rateId),
     actorUsername |-> u,
     rateId |-> rateId,
     gameName |-> findRate(rateId).gameName]

Like(rateId, username) ==
    LET u == normalize(username)
    IN  /\ IF u = <<>>
           THEN /\ Reply("like", 400, "username required")
                /\ UNCHANGED <<likes, notifications, created, disk>>
           ELSE IF ~rateExists(rateId)
           THEN /\ Reply("like", 404, "Rate not found")
                /\ UNCHANGED <<likes, notifications, created, disk>>
           ELSE IF hasLike(likes, rateId, u)
           THEN /\ Reply("like", 409, [error |-> "Already liked",
                                       likeCount |-> likeCount(likes, rateId)])
                /\ UNCHANGED <<likes, notifications, created, disk>>
           ELSE /\ Len(likes) < MaxLikes
                /\ likes' = Append(likes, [rateId |-> rateId, username |-> u])
                /\ IF ownerHandle(rateId) # <<>> /\ ownerHandle(rateId) # u
                   THEN /\ created.notif < MaxNotifs
                        /\ created' = [created EXCEPT !.notif = @ + 1]
                        /\ notifications' =
                               <<likeNotification(rateId, u, created'.notif)>>
                               \o notifications
                        /\ disk' = [saveFile("likes", likes') EXCEPT
                                       !.notifications =
                                           IF dbEnabled THEN @ ELSE notifications']
                   ELSE /\ UNCHANGED <<notifications, created>>
                        /\ disk' = saveFile("likes", likes')
                /\ Reply("like", 201, [success |-> TRUE,
                                       likeCount |-> likeCount(likes', rateId)])
        /\ UNCHANGED <<dbEnabled, adminToken, inflight, toast, now, rates, follows, bookmarks, comments, reports>>
        /\ UNCHANGED authVars

\* A like request of the relational branch, from one await to the next.  A
\* query runs against the tables when the step is taken; what the handler
\* does with its result touches no state other handlers read.

\* the request is sent to the handler of slot s, which runs to the SELECT
likeReceived(s, rateId, username) ==
    LET u == normalize(username)
    IN  /\ dbEnabled
        /\ inflight[s].pc = "idle"
        /\ IF u = <<>>
           THEN /\ inflight' = [inflight EXCEPT ![s] =
                       [pc |-> "done", op |-> "like", rateId |-> rateId,
                        u |-> u, rowCount |-> 0, status |-> 400]]
                /\ Reply("like", 400, "username required")
           ELSE /\ inflight' = [inflight EXCEPT ![s] =
                       [pc |-> "selectRate", op |-> "like", rateId |-> rateId,
                        u |-> u, rowCount |-> 0, status |-> 0]]
                /\ UNCHANGED resp
        /\ UNCHANGED <<adminToken, dbEnabled, toast, now, disk>>
        /\ UNCHANGED authVars
        /\ UNCHANGED storeVars

\* SELECT rater_handle, game_name FROM rates WHERE id = $1
likeSelectRate(s) ==
    /\ inflight[s].pc = "selectRate"
    /\ IF ~rateExists(inflight[s].rateId)
       THEN /\ inflight' = [inflight EXCEPT ![s].pc = "done", ![s].status = 404]
            /\ Reply("like", 404, "Rate not found")
       ELSE /\ inflight' = [inflight EXCEPT ![s].pc = "insertLike"]
            /\ UNCHANGED resp
    /\ UNCHANGED <<adminToken, dbEnabled, toast, now, disk>>
    /\ UNCHANGED authVars
    /\ UNCHANGED storeVars

\* INSERT INTO likes ... ON CONFLICT DO NOTHING; the foreign key of rate_id
\* makes it throw when the rate is gone
likeInsert(s) ==
    LET q == inflight[s]
    IN  /\ q.pc = "insertLike"
        /\ IF ~rateExists(q.rateId)
           THEN /\ inflight' = [inflight EXCEPT ![s].pc = "done", ![s].status = 500]
                /\ Reply("like", 500, "Server error")
                /\ UNCHANGED likes
           ELSE IF hasLike(likes, q.rateId, q.u)
           THEN /\ inflight' = [inflight EXCEPT ![s].pc = "count"]
                /\ UNCHANGED <<likes, resp>>
           ELSE /\ Len(likes) < MaxLikes
                /\ likes' = Append(likes, [rateId |-> q.rateId, username |-> q.u])
                /\ inflight' = [inflight EXCEPT ![s].pc = "count", ![s].rowCount = 1]
                /\ UNCHANGED resp
        /\ UNCHANGED <<adminToken, dbEnabled, toast, now, disk, rates, follows,
                       bookmarks, comments, notifications, reports, created>>
        /\ UNCHANGED authVars

\* SELECT COUNT(*) FROM likes WHERE rate_id = $1, then the answer 409 for a
\* row that was not inserted
likeCounted(s) ==
    LET q == inflight[s]
    IN  /\ q.pc = "count"
        /\ IF q.rowCount = 0
           THEN /\ inflight' = [inflight EXCEPT ![s].pc = "done", ![s].status = 409]
                /\ Reply("like", 409, [error |-> "Already liked",
                                       likeCount |-> likeCount(likes, q.rateId)])
           ELSE IF ownerHandle(q.rateId) # <<>> /\ ownerHandle(q.rateId) # q.u
           THEN /\ inflight' = [inflight EXCEPT ![s].pc = "insertNotification"]
                /\ UNCHANGED resp
           ELSE /\ inflight' = [inflight EXCEPT ![s].pc = "done", ![s].status = 201]
                /\ Reply("like", 201, [success |-> TRUE,
                                       likeCount |-> likeCount(likes, q.rateId)])
        /\ UNCHANGED <<adminToken, dbEnabled, toast, now, disk>>
        /\ UNCHANGED authVars
        /\ UNCHANGED storeVars

\* INSERT INTO notifications (... 'like' ...), then the answer 201
likeNotified(s) ==
    LET q == inflight[s]
    IN  /\ q.pc = "insertNotification"
        /\ created.notif < MaxNotifs
        /\ created' = [created EXCEPT !.notif = @ + 1]
        /\ notifications' =
               <<likeNotification(q.rateId, q.u, created'.notif)>> \o notifications
        /\ inflight' = [inflight EXCEPT ![s].pc = "done", ![s].status = 201]
        /\ Reply("like", 201, [success |-> TRUE,
                               likeCount |-> likeCount(likes, q.rateId)])
        /\ UNCHANGED <<adminToken, dbEnabled, toast, now, disk, rates, follows, likes,
                       bookmarks, comments, reports>>
        /\ UNCHANGED authVars

\* mutant: taking a like back also takes back its notification
UnlikeAndRetract(rateId, username) ==
    LET u == normalize(username)
        kept == SelectSeq(likes, LAMBDA l :
                    ~(l.rateId = rateId /\ toLowerCase(l.username) = u))
    IN  /\ IF u = <<>>
           THEN /\ Reply("unlike", 400, "username required")
                /\ UNCHANGED <<likes, notifications, disk>>
           ELSE IF Len(kept) = Len(likes)
           THEN /\ Reply("unlike", 404, "Not liked")
                /\ UNCHANGED <<likes, notifications, disk>>
           ELSE /\ likes' = kept
                /\ notifications' = SelectSeq(notifications, LAMBDA n :
                       ~(n.type = "like" /\ n.rateId = rateId
                         /\ n.actorUsername = u))
                /\ disk' = [saveFile("likes", likes') EXCEPT
                               !.notifications =
                                   IF dbEnabled THEN @ ELSE notifications']
                /\ Reply("unlike", 200, [success |-> TRUE,
                                         likeCount |-> likeCount(likes', rateId)])
        /\ UNCHANGED <<dbEnabled, adminToken, inflight, toast, now, rates, follows, bookmarks, comments,
                       reports, created>>
        /\ UNCHANGED authVars

Unlike(rateId, username) ==
    LET u == normalize(username)
        kept == SelectSeq(likes, LAMBDA l :
                    ~(l.rateId = rateId /\ toLowerCase(l.username) = u))
    IN  /\ IF u = <<>>
           THEN /\ Reply("unlike", 400, "username required")
                /\ UNCHANGED <<likes, disk>>
           ELSE IF Len(kept) = Len(likes)
           THEN /\ Reply("unlike", 404, "Not liked")
                /\ UNCHANGED <<likes, disk>>
           ELSE /\ likes' = kept
                /\ disk' = saveFile("likes", likes')
                /\ Reply("unlike", 200, [success |-> TRUE,
                                         likeCount |-> likeCount(likes', rateId)])
        /\ UNCHANGED <<dbEnabled, adminToken, inflight, toast, now, rates, follows, bookmarks, comments,
                       notifications, reports, created>>
        /\ UNCHANGED authVars

----------------------------------------------------------------------------
(* POST and DELETE /api/rates/:id/bookmark                                 *)

bookmarkCount(array, rateId) == countOfRate(array, rateId)

\* mutant: a second bookmark of the same pair is not recognised
neverBookmarked(array, rateId, u) == FALSE

hasBookmark(array, rateId, u) ==
    (\E b \in elements(array) : b.rateId = rateId /\ toLowerCase(b.username) = u)

Bookmark(rateId, username) ==
    LET u == normalize(username)
    IN  /\ IF u = <<>>
           THEN /\ Reply("bookmark", 400, "username required")
                /\ UNCHANGED <<bookmarks, disk>>
           ELSE IF ~rateExists(rateId)
           THEN /\ Reply("bookmark", 404, "Rate not found")
                /\ UNCHANGED <<bookmarks, disk>>
           ELSE IF hasBookmark(bookmarks, rateId, u)
           THEN /\ Reply("bookmark", 409,
                         [error |-> "Already bookmarked",
                          bookmarkCount |-> bookmarkCount(bookmarks, rateId)])
                /\ UNCHANGED <<bookmarks, disk>>
           ELSE /\ Len(bookmarks) < MaxBookmarks
                /\ bookmarks' = Append(bookmarks, [rateId |-> rateId, username |-> u])
                /\ disk' = saveFile("bookmarks", bookmarks')
                /\ Reply("bookmark", 201,
                         [success |-> TRUE,
                          bookmarkCount |-> bookmarkCount(bookmarks', rateId)])
        /\ UNCHANGED <<dbEnabled, adminToken, inflight, toast, now, rates, follows, likes, comments,
                       notifications, reports, created>>
        /\ UNCHANGED authVars

Unbookmark(rateId, username) ==
    LET u == normalize(username)
        kept == SelectSeq(bookmarks, LAMBDA b :
                    ~(b.rateId = rateId /\ toLowerCase(b.username) = u))
    IN  /\ IF u = <<>>
           THEN /\ Reply("unbookmark", 400, "username required")
                /\ UNCHANGED <<bookmarks, disk>>
           ELSE IF Len(kept) = Len(bookmarks)
           THEN /\ Reply("unbookmark", 404, "Not bookmarked")
                /\ UNCHANGED <<bookmarks, disk>>
           ELSE /\ bookmarks' = kept
                /\ disk' = saveFile("bookmarks", bookmarks')
                /\ Reply("unbookmark", 200,
                         [success |-> TRUE,
                          bookmarkCount |-> bookmarkCount(bookmarks', rateId)])
        /\ UNCHANGED <<dbEnabled, adminToken, inflight, toast, now, rates, follows, likes, comments,
                       notifications, reports, created>>
        /\ UNCHANGED authVars

----------------------------------------------------------------------------
(* POST /api/rates/:id/comments                                            *)

\* the length after which the notification body is cut
SnippetLength == 80

\* text.length > 80 ? text.slice(0, 80) + '...' : text
bodySnippet(text) ==
    IF Len(text) > SnippetLength
    THEN SubSeq(text, 1, SnippetLength) \o <<"...">>   \* the ellipsis character
    ELSE text

commentCount(array, rateId) == countOfRate(array, rateId)

makeComment(rateId, u, name, text, n) ==
    [id |-> makeId("comment", n),
     rateId |-> rateId,
     username |-> u,
     displayName |-> orDefault(name, <<"G", "u", "e", "s", "t">>),
     body |-> text,
     createdAt |-> toISOString(now)]

commentNotification(comment, n) ==
    [id |-> makeId("notif", n),
     type |-> "comment",
     createdAt |-> toISOString(now),
     read |-> FALSE,
     forUsername |-> ownerHandle(comment.rateId),
     actorUsername |-> comment.username,
     actorDisplayName |-> comment.displayName,
     rateId |-> comment.rateId,
     body |-> bodySnippet(comment.body)]

\* saveComments(): server/index.mjs defines no function of this name, the
\* call in the flat-file branch throws a ReferenceError
saveCommentsThrows == TRUE

\* relational branch, and what the flat-file branch does after saveComments()
commentStored(comment) ==
    /\ IF ownerHandle(comment.rateId) # <<>>
          /\ ownerHandle(comment.rateId) # comment.username
       THEN /\ created.notif < MaxNotifs
            /\ created' = [created EXCEPT !.comment = @ + 1, !.notif = @ + 1]
            /\ notifications' =
                   <<commentNotification(comment, created'.notif)>> \o notifications
            /\ disk' = saveFile("notifications", notifications')
       ELSE /\ created' = [created EXCEPT !.comment = @ + 1]
            /\ UNCHANGED <<notifications, disk>>
    /\ Reply("postComment", 201,
             [comment |-> comment,
              commentCount |-> commentCount(comments', comment.rateId)])

\* the catch block of the handler after saveComments() has thrown
commentThrown ==
    /\ created' = [created EXCEPT !.comment = @ + 1]
    /\ UNCHANGED <<notifications, disk>>
    /\ Reply("postComment", 500, "Server error")

PostComment(rateId, username, displayName, body) ==
    LET u == normalize(username)
        name == trim(displayName)
        text == trim(body)
        comment == makeComment(rateId, u, name, text, created.comment + 1)
    IN  /\ IF u = <<>>
           THEN /\ Reply("postComment", 400, "username required")
                /\ UNCHANGED <<comments, notifications, created, disk>>
           ELSE IF text = <<>>
           THEN /\ Reply("postComment", 400, "body required")
                /\ UNCHANGED <<comments, notifications, created, disk>>
           ELSE IF ~rateExists(rateId)
           THEN /\ Reply("postComment", 404, "Rate not found")
                /\ UNCHANGED <<comments, notifications, created, disk>>
           ELSE /\ created.comment < MaxComments
                /\ comments' = Append(comments, comment)
                /\ IF ~dbEnabled /\ saveCommentsThrows
                   THEN commentThrown
                   ELSE commentStored(comment)
        /\ UNCHANGED <<dbEnabled, adminToken, inflight, toast, now, rates, follows, likes, bookmarks, reports>>
        /\ UNCHANGED authVars

----------------------------------------------------------------------------
(* Read-time enrichment, GET /api/rates and GET /api/rates/:id             *)

\* { ...r, likeCount, liked, commentCount, bookmarkCount, bookmarked }
withEngagement(r, nLikes, liked, nComments, nBookmarks, bookmarked) ==
    [f \in DOMAIN r \cup {"liked", "bookmarked"} |->
        CASE f = "likeCount" -> nLikes
          [] f = "liked" -> liked
          [] f = "commentCount" -> nComments
          [] f = "bookmarkCount" -> nBookmarks
          [] f = "bookmarked" -> bookmarked
          [] OTHER -> r[f]]

\* u is null when no current username is given or it trims to ''
enrichRatesWithLikes(ratesArray, currentUsername) ==
    LET u == IF currentUsername # <<>> THEN normalize(currentUsername) ELSE <<>>
    IN  [i \in 1..Len(ratesArray) |->
            LET r == ratesArray[i]
            IN  withEngagement(r,
                    likeCount(likes, r.id),
                    IF u # <<>> THEN hasLike(likes, r.id, u) ELSE FALSE,
                    commentCount(comments, r.id),
                    bookmarkCount(bookmarks, r.id),
                    IF u # <<>> THEN hasBookmark(bookmarks, r.id, u) ELSE FALSE)]

\* the SELECT list of the relational branch: counts by LEFT JOIN, flags by
\* EXISTS (... username = $current), false when $current IS NULL
sqlRow(r, current) ==
    withEngagement(r,
        likeCount(likes, r.id),
        IF current # <<>>
        THEN (\E l \in elements(likes) : l.rateId = r.id /\ l.username = current)
        ELSE FALSE,
        commentCount(comments, r.id),
        bookmarkCount(bookmarks, r.id),
        IF current # <<>>
        THEN (\E b \in elements(bookmarks) : b.rateId = r.id /\ b.username = current)
        ELSE FALSE)

\* mutant: rates scheduled for the future are shown
visibleAlways(r) == TRUE

\* !Number.isNaN(t) && t <= now / r.created_at <= now()
visible(r) ==
    LET t == getTime(r.createdAt) IN t # NaN /\ t <= now

\* the query string; platform is left out
RateQuery(tab, username, raterHandle, bookmarkedBy) ==
    [tab |-> tab, username |-> username, raterHandle |-> raterHandle,
     bookmarkedBy |-> bookmarkedBy]

\* mutant: the rates of everyone who is followed by anyone are listed
followedByAnyone(u, handle) ==
    (\E f \in elements(follows) : toLowerCase(f.followeeUsername) = handle)

followingSetHas(u, handle) ==
    (\E f \in elements(follows) : /\ toLowerCase(f.followerUsername) = u
                             /\ toLowerCase(f.followeeUsername) = handle)

\* flat-file branch of GET /api/rates
fileRateList(q) ==
    LET list ==
            IF q.tab = "following" /\ q.username # <<>>
            THEN SelectSeq(rates, LAMBDA r :
                     followingSetHas(normalize(q.username), toLowerCase(r.raterHandle)))
            ELSE IF q.bookmarkedBy # <<>>
            THEN SelectSeq(rates, LAMBDA r :
                     hasBookmark(bookmarks, r.id, normalize(q.bookmarkedBy)))
            ELSE IF q.raterHandle # <<>>
            THEN SelectSeq(rates, LAMBDA r :
                     toLowerCase(r.raterHandle) = normalize(q.raterHandle))
            ELSE rates
    IN  enrichRatesWithLikes(SelectSeq(list, visible),
                             IF q.username # <<>> THEN q.username ELSE q.bookmarkedBy)

\* relational branch of GET /api/rates: the rows the joins and the WHERE
\* clause keep, before ORDER BY
dbRateRows(q) ==
    LET current == IF trim(q.username) # <<>> THEN normalize(q.username)
                   ELSE normalize(q.bookmarkedBy)
        kept(r) ==
            /\ visible(r)
            /\ (q.tab = "following" /\ trim(q.username) # <<>>) =>
                   (\E f \in elements(follows) :
                       /\ f.followeeUsername = toLowerCase(r.raterHandle)
                       /\ f.followerUsername = normalize(q.username))
            /\ trim(q.bookmarkedBy) # <<>> =>
                   (\E b \in elements(bookmarks) :
                       b.rateId = r.id /\ b.username = normalize(q.bookmarkedBy))
            /\ trim(q.raterHandle) # <<>> =>
                   toLowerCase(r.raterHandle) = normalize(q.raterHandle)
        rows == SelectSeq(rates, kept)
    IN  [i \in 1..Len(rows) |-> sqlRow(rows[i], current)]

\* LIMIT 200
RowLimit == 200

\* ORDER BY created_at DESC LIMIT 200: every order of the rows in which
\* created_at does not increase; rows of equal created_at come in any order
orderByCreatedAtDesc(rows) ==
    LET n == Len(rows)
        orders == {[i \in 1..n |-> rows[p[i]]] : p \in Permutations(1..n)}
        sorted(o) == \A i \in 1..n, j \in 1..n :
                         i < j => getTime(o[i].createdAt) >= getTime(o[j].createdAt)
    IN  {SubSeq(o, 1, IF n < RowLimit THEN n ELSE RowLimit) :
            o \in {x \in orders : sorted(x)}}

GetRates(q) ==
    /\ \E list \in IF dbEnabled THEN orderByCreatedAtDesc(dbRateRows(q))
                   ELSE {fileRateList(q)} :
           Reply("getRates", 200, list)
    /\ UNCHANGED <<dbEnabled, adminToken, inflight, toast, now, disk>>
    /\ UNCHANGED authVars
    /\ UNCHANGED storeVars

\* the body of GET /api/rates/:id, <<>> when the answer is 404
rateById(id, username) ==
    LET found == SelectSeq(rates, LAMBDA r : r.id = id)
    IN  IF found = <<>> \/ ~visible(found[1]) THEN <<>>
        ELSE IF dbEnabled
        THEN <<sqlRow(found[1], IF trim(username) # <<>> THEN normalize(username)
                                ELSE <<>>)>>
        ELSE enrichRatesWithLikes(<<found[1]>>, username)

GetRateById(id, username) ==
    /\ IF rateById(id, username) = <<>>
       THEN Reply("getRateById", 404, "Rate not found")
       ELSE Reply("getRateById", 200, rateById(id, username)[1])
    /\ UNCHANGED <<dbEnabled, adminToken, inflight, toast, now, disk>>
    /\ UNCHANGED authVars
    /\ UNCHANGED storeVars

----------------------------------------------------------------------------
(* GET /api/rates/trending and the routing of GET requests                 *)

\* the in-memory rates array: in relational mode it keeps what loadRates()
\* read from data/rates.json when the server started
ratesArray == IF dbEnabled THEN disk.rates ELSE rates

\* the for loop over rates: byGame is the Map as the sequence of its
\* entries in insertion order
RECURSIVE countGames(_, _)
countGames(array, byGame) ==
    IF array = <<>> THEN byGame
    ELSE LET r == Head(array)
             name == trim(r.gameName)
             key == toLowerCase(name)
         IN  IF ~visible(r) \/ key = <<>>
             THEN countGames(Tail(array), byGame)
             ELSE IF \E i \in DOMAIN byGame : byGame[i].key = key
             THEN countGames(Tail(array),
                      [i \in DOMAIN byGame |->
                          IF byGame[i].key = key
                          THEN [byGame[i] EXCEPT !.count = @ + 1]
                          ELSE byGame[i]])
             ELSE countGames(Tail(array),
                      Append(byGame, [key |-> key, count |-> 1, displayName |-> name]))

\* entries.sort((a, b) => b[1].count - a[1].count): a stable sort
sortByCountDesc(entries) ==
    LET place(i) == 1 + Cardinality({j \in DOMAIN entries :
                        \/ entries[j].count > entries[i].count
                        \/ entries[j].count = entries[i].count /\ j < i})
    IN  [k \in DOMAIN entries |-> entries[CHOOSE i \in DOMAIN entries : place(i) = k]]

\* .slice(0, 5)
TrendingLimit == 5

\* the JSON array the trending handler sends
trendingGames ==
    LET sorted == sortByCountDesc(countGames(ratesArray, <<>>))
        n == IF Len(sorted) < TrendingLimit THEN Len(sorted) ELSE TrendingLimit
    IN  [i \in 1..n |-> [rank |-> i,
                         gameName |-> sorted[i].displayName,
                         count |-> sorted[i].count]]

Trending ==
    /\ Reply("trending", 200, trendingGames)
    /\ UNCHANGED <<dbEnabled, adminToken, inflight, toast, now, disk>>
    /\ UNCHANGED authVars
    /\ UNCHANGED storeVars

\* a segment of a path, and the :id segment of a route
Segment(name) == <<name>>
IdParam == <<":", "id">>

\* the GET routes on /api/rates in the order app.get() registers them
GetRoutes ==
    <<[path |-> <<Segment("api"), Segment("rates")>>, handler |-> "getRates"],
      [path |-> <<Segment("api"), Segment("rates"), IdParam>>, handler |-> "getRateById"],
      [path |-> <<Segment("api"), Segment("rates"), Segment("trending")>>,
       handler |-> "trending"]>>

routeMatches(route, path) ==
    /\ Len(route.path) = Len(path)
    /\ \A i \in DOMAIN path : route.path[i] = IdParam \/ route.path[i] = path[i]

\* Express hands the request to the first registered route that matches
routeOf(path) ==
    LET matching == {i \in DOMAIN GetRoutes : routeMatches(GetRoutes[i], path)}
    IN  IF matching = {} THEN "none"
        ELSE GetRoutes[CHOOSE i \in matching : \A j \in matching : i <= j].handler

\* a GET request for the path, with ?username=
HttpGet(path, username) ==
    LET handler == routeOf(path)
    IN  CASE handler = "getRates" -> GetRates(RateQuery("", username, <<>>, <<>>))
          [] handler = "getRateById" -> GetRateById(path[3], username)
          [] handler = "trending" -> Trending
          [] OTHER -> /\ Reply("none", 404, "Cannot GET")
                      /\ UNCHANGED <<dbEnabled, adminToken, inflight, toast, now, disk>>
                      /\ UNCHANGED authVars
                      /\ UNCHANGED storeVars

----------------------------------------------------------------------------
(* GET /api/following, POST and DELETE /api/follow                          *)

\* mutant: following oneself is not refused
followErrorNoSelf(follower, followee) ==
    IF follower = <<>> \/ followee = <<>>
    THEN "followerUsername and followeeUsername required"
    ELSE ""

\* the 400 answers of POST /api/follow, "" when there is none
followError(follower, followee) ==
    IF follower = <<>> \/ followee = <<>>
    THEN "followerUsername and followeeUsername required"
    ELSE IF follower = followee
    THEN "Cannot follow yourself"
    ELSE ""

\* mutant: a second follow of the same pair is not recognised
neverFollowing(array, follower, followee) == FALSE

\* follows.some(f => follower and followee match, lower-cased); in
\* relational mode the row the INSERT ... ON CONFLICT DO NOTHING skips
isFollowing(array, follower, followee) ==
    (\E f \in elements(array) :
        /\ toLowerCase(f.followerUsername) = follower
        /\ toLowerCase(f.followeeUsername) = followee)

\* the record of notifications.unshift({... type: 'follow' ...}) and of the
\* INSERT INTO notifications of the relational branch
followNotification(follower, followee, n) ==
    [id |-> makeId("notif", n),
     type |-> "follow",
     createdAt |-> toISOString(now),
     read |-> FALSE,
     forUsername |-> followee,
     actorUsername |-> follower]

Follow(followerUsername, followeeUsername) ==
    LET follower == normalize(followerUsername)
        followee == normalize(followeeUsername)
    IN  /\ IF followError(follower, followee) # ""
           THEN /\ Reply("follow", 400, followError(follower, followee))
                /\ UNCHANGED <<follows, notifications, created, disk>>
           ELSE IF isFollowing(follows, follower, followee)
           THEN /\ Reply("follow", 409, "Already following")
                /\ UNCHANGED <<follows, notifications, created, disk>>
           ELSE /\ Len(follows) < MaxFollows
                /\ created.notif < MaxNotifs
                /\ follows' = Append(follows, [followerUsername |-> follower,
                                               followeeUsername |-> followee])
                /\ created' = [created EXCEPT !.notif = @ + 1]
                /\ notifications' =
                       <<followNotification(follower, followee, created'.notif)>>
                       \o notifications
                /\ disk' = [saveFile("follows", follows') EXCEPT
                               !.notifications =
                                   IF dbEnabled THEN @ ELSE notifications']
                /\ Reply("follow", 201, [success |-> TRUE])
        /\ UNCHANGED <<dbEnabled, adminToken, inflight, toast, now, rates, likes, bookmarks, comments, reports>>
        /\ UNCHANGED authVars

\* mutant: the edge is not removed
withoutFollowKept(array, follower, followee) == array

\* follows.filter(f => !(follower and followee match)) / DELETE FROM follows
withoutFollow(array, follower, followee) ==
    SelectSeq(array, LAMBDA f :
        ~(/\ toLowerCase(f.followerUsername) = follower
          /\ toLowerCase(f.followeeUsername) = followee))

Unfollow(followerUsername, followeeUsername) ==
    LET follower == normalize(followerUsername)
        followee == normalize(followeeUsername)
        kept == withoutFollow(follows, follower, followee)
    IN  /\ IF follower = <<>> \/ followee = <<>>
           THEN /\ Reply("unfollow", 400,
                         "followerUsername and followeeUsername required")
                /\ UNCHANGED <<follows, disk>>
           ELSE IF Len(kept) = Len(follows)
           THEN /\ Reply("unfollow", 404, "Not following")
                /\ UNCHANGED <<follows, disk>>
           ELSE /\ follows' = kept
                /\ disk' = saveFile("follows", follows')
                /\ Reply("unfollow", 200, [success |-> TRUE])
        /\ UNCHANGED <<dbEnabled, adminToken, inflight, toast, now, rates, likes, bookmarks, comments,
                       notifications, reports, created>>
        /\ UNCHANGED authVars

\* the body of GET /api/following: the followees of u, in stored order
followingOf(array, u) ==
    LET mine == SelectSeq(array, LAMBDA f : toLowerCase(f.followerUsername) = u)
    IN  [i \in 1..Len(mine) |-> mine[i].followeeUsername]

\* the rows of a SELECT without ORDER BY come in any order
anyOrder(rows) ==
    {[i \in 1..Len(rows) |-> rows[p[i]]] : p \in Permutations(1..Len(rows))}

GetFollowing(username) ==
    /\ IF username = <<>>
       THEN Reply("getFollowing", 400, "username required")
       ELSE \E list \in IF dbEnabled
                        THEN anyOrder(followingOf(follows, normalize(username)))
                        ELSE {followingOf(follows, normalize(username))} :
                Reply("getFollowing", 200, list)
    /\ UNCHANGED <<dbEnabled, adminToken, inflight, toast, now, disk>>
    /\ UNCHANGED authVars
    /\ UNCHANGED storeVars

----------------------------------------------------------------------------
(* POST /api/rates/:id/report and DELETE /api/admin/rates/:id              *)

\* reason.slice(0, 280)
ReasonLimit == 280

makeReport(rateId, reporter, reason, n) ==
    [id |-> makeId("report", n),
     rateId |-> rateId,
     reporterUsername |-> reporter,
     reason |-> SubSeq(reason, 1, IF Len(reason) < ReasonLimit
                                  THEN Len(reason) ELSE ReasonLimit),
     createdAt |-> toISOString(now)]

Report(rateId, username, reason) ==
    LET reporter == normalize(username)
    IN  /\ IF reporter = <<>>
           THEN /\ Reply("report", 400, "username required")
                /\ UNCHANGED <<reports, created, disk>>
           ELSE IF ~rateExists(rateId)
           THEN /\ Reply("report", 404, "Rate not found")
                /\ UNCHANGED <<reports, created, disk>>
           ELSE /\ created.report < MaxReports
                /\ created' = [created EXCEPT !.report = @ + 1]
                /\ reports' = Append(reports,
                       makeReport(rateId, reporter, reason, created'.report))
                /\ disk' = saveFile("reports", reports')
                /\ Reply("report", 201, [success |-> TRUE])
        /\ UNCHANGED <<dbEnabled, adminToken, inflight, toast, now, rates, follows, likes, bookmarks,
                       comments, notifications>>
        /\ UNCHANGED authVars

\* mutant: without a configured secret an empty header is accepted
authorizedWhenUnset(token, expected) == token = expected

\* the negation of !expected || token !== expected
authorized(token, expected) == expected # <<>> /\ token = expected

\* x.rateId, undefined (here <<>>) for a notification of type follow
rateIdOf(x) == IF "rateId" \in DOMAIN x THEN x.rateId ELSE <<>>

\* array.filter(x => x.rateId !== rateId); in relational mode the rows
\* ON DELETE CASCADE leaves
withoutRate(array, rateId) ==
    SelectSeq(array, LAMBDA x : rateIdOf(x) # rateId)

\* the flat-file branch once the rate is found: the six arrays are filtered,
\* rates.json, likes.json and bookmarks.json are written, and saveComments(),
\* which is not defined, throws before reports.json and notifications.json
\* are written
adminDeleteFile(rateId) ==
    /\ rates' = SelectSeq(rates, LAMBDA r : r.id # rateId)
    /\ likes' = withoutRate(likes, rateId)
    /\ bookmarks' = withoutRate(bookmarks, rateId)
    /\ comments' = withoutRate(comments, rateId)
    /\ reports' = withoutRate(reports, rateId)
    /\ notifications' = withoutRate(notifications, rateId)
    /\ IF saveCommentsThrows
       THEN /\ disk' = [disk EXCEPT !.rates = rates', !.likes = likes',
                                    !.bookmarks = bookmarks']
            /\ Reply("adminDelete", 500, "Server error")
       ELSE /\ disk' = [disk EXCEPT !.rates = rates', !.likes = likes',
                                    !.bookmarks = bookmarks',
                                    !.reports = reports',
                                    !.notifications = notifications']
            /\ Reply("adminDelete", 200, [success |-> TRUE])

\* DELETE FROM rates WHERE id = $1 and the cascade of the foreign keys
adminDeleteDb(rateId) ==
    /\ rates' = SelectSeq(rates, LAMBDA r : r.id # rateId)
    /\ likes' = withoutRate(likes, rateId)
    /\ bookmarks' = withoutRate(bookmarks, rateId)
    /\ comments' = withoutRate(comments, rateId)
    /\ reports' = withoutRate(reports, rateId)
    /\ notifications' = withoutRate(notifications, rateId)
    /\ UNCHANGED disk
    /\ Reply("adminDelete", 200, [success |-> TRUE])

\* the :id of the route is never empty, so 'rateId required' is not answered
AdminDelete(header, rateId) ==
    LET token == trim(header)
        expected == trim(adminToken)
    IN  /\ IF ~authorized(token, expected)
           THEN /\ Reply("adminDelete", 401, "Unauthorized")
                /\ UNCHANGED <<rates, likes, bookmarks, comments, reports,
                               notifications, disk>>
           ELSE IF ~rateExists(rateId)
           THEN /\ Reply("adminDelete", 404, "Rate not found")
                /\ UNCHANGED <<rates, likes, bookmarks, comments, reports,
                               notifications, disk>>
           ELSE IF dbEnabled
           THEN adminDeleteDb(rateId)
           ELSE adminDeleteFile(rateId)
        /\ UNCHANGED <<dbEnabled, adminToken, inflight, toast, now, follows, created>>
        /\ UNCHANGED authVars

----------------------------------------------------------------------------
(* GET /api/notifications/unread-count, PATCH /api/notifications/:id/read  *)
(* and PATCH /api/notifications/read-all                                   *)

\* mutant: the unread notifications of every user are marked
unreadOfAnyone(n, u) == ~n.read

\* (n.forUsername || '').toLowerCase() === u && !n.read /
\* WHERE for_username = $1 AND read = false
unreadFor(n, u) == toLowerCase(n.forUsername) = u /\ ~n.read

\* mutant: marking flips the flag
toggleRead(n) == [n EXCEPT !.read = ~@]

\* n.read = true / SET read = true
markRead(n) == [n EXCEPT !.read = TRUE]

UnreadCount(username) ==
    /\ IF username = <<>>
       THEN Reply("unreadCount", 400, "username required")
       ELSE Reply("unreadCount", 200,
                  [count |-> Cardinality({i \in DOMAIN notifications :
                                unreadFor(notifications[i], normalize(username))})])
    /\ UNCHANGED <<dbEnabled, adminToken, inflight, toast, now, disk>>
    /\ UNCHANGED authVars
    /\ UNCHANGED storeVars

MarkOneRead(id) ==
    /\ IF \E i \in DOMAIN notifications : notifications[i].id = id
       THEN /\ notifications' =
                   [i \in DOMAIN notifications |->
                       IF notifications[i].id = id
                       THEN markRead(notifications[i]) ELSE notifications[i]]
            /\ disk' = saveFile("notifications", notifications')
            /\ Reply("markRead", 200, [success |-> TRUE])
       ELSE /\ Reply("markRead", 404, "Notification not found")
            /\ UNCHANGED <<notifications, disk>>
    /\ UNCHANGED <<dbEnabled, adminToken, inflight, toast, now, rates, follows, likes, bookmarks, comments,
                   reports, created>>
    /\ UNCHANGED authVars

MarkAllRead(username) ==
    LET u == normalize(username)
        count == Cardinality({i \in DOMAIN notifications :
                                 unreadFor(notifications[i], u)})
    IN  /\ IF u = <<>>
           THEN /\ Reply("readAll", 400, "username required")
                /\ UNCHANGED <<notifications, disk>>
           ELSE /\ notifications' =
                       [i \in DOMAIN notifications |->
                           IF unreadFor(notifications[i], u)
                           THEN markRead(notifications[i]) ELSE notifications[i]]
                /\ disk' = IF count > 0
                           THEN saveFile("notifications", notifications')
                           ELSE disk
                /\ Reply("readAll", 200, [success |-> TRUE, marked |-> count])
        /\ UNCHANGED <<dbEnabled, adminToken, inflight, toast, now, rates, follows, likes, bookmarks, comments,
                       reports, created>>
        /\ UNCHANGED authVars

----------------------------------------------------------------------------
(* The process is stopped and started again.                               *)

\* the tables outlive the process; in flat-file mode loadUsers() ...
\* loadReports() read the files back, comments and the pending signups,
\* which have no file, start empty
Restart ==
    /\ completeTokens' = <<>>
    /\ IF dbEnabled
       THEN UNCHANGED <<users, rates, follows, likes, bookmarks, comments,
                        notifications, reports>>
       ELSE /\ users' = disk.users
            /\ rates' = disk.rates
            /\ follows' = disk.follows
            /\ likes' = disk.likes
            /\ notifications' = disk.notifications
            /\ bookmarks' = disk.bookmarks
            /\ reports' = disk.reports
            /\ comments' = <<>>
    /\ Reply("restart", 0, NoBody)
    /\ UNCHANGED <<dbEnabled, adminToken, inflight, toast, now, issued, created, disk>>

----------------------------------------------------------------------------

\* the two requests that are handled at the same time
Slots == {1, 2}

\* no request in the slot
Idle == [pc |-> "idle"]

\* useState(null), useState(true), useRef(null); no timer is set
NoToast ==
    [message |-> <<>>, isError |-> TRUE, timerRef |-> 0, timers |-> {},
     clock |-> 0, shownAt |-> 0, made |-> 0]

EmptyDisk ==
    [users |-> <<>>, rates |-> <<>>, follows |-> <<>>, likes |-> <<>>,
     notifications |-> <<>>, bookmarks |-> <<>>, reports |-> <<>>]

\* the secret of the administrator
AdminSecret == <<"s", "3">>

\* the stores and the clock when the server has started
InitStores ==
    /\ now = 0
    /\ completeTokens = <<>>
    /\ users = <<>>
    /\ issued = 0
    /\ rates = <<>>
    /\ follows = <<>>
    /\ likes = <<>>
    /\ bookmarks = <<>>
    /\ comments = <<>>
    /\ notifications = <<>>
    /\ reports = <<>>
    /\ created = [rate |-> 0, comment |-> 0, notif |-> 0, report |-> 0]
    /\ disk = EmptyDisk
    /\ resp = [op |-> "none", status |-> 0, body |-> NoBody]
    /\ inflight = [s \in Slots |-> Idle]
    /\ toast = NoToast

\* the server in either mode, with the administrator's secret configured
Init ==
    /\ dbEnabled \in BOOLEAN
    /\ adminToken = AdminSecret
    /\ InitStores

NextAuth ==
    \/ \E r \in SignupRequests : Signup(r.email, r.password, r.lookupFails)
    \/ \E r \in CompleteRequests :
           Complete(r.completeToken, r.displayName, r.username)
    \/ Tick

SpecAuth == Init /\ [][NextAuth]_vars

----------------------------------------------------------------------------
(* Inputs of the feed: rates, likes, bookmarks, comments and the reads.    *)

Amy   == <<"A", "m", "y">>
spBob == <<" ", "B", "o", "b">>
blank == <<" ">>

\* a rate posted now, one scheduled for the next tick, one whose scheduledAt
\* is not a date, and one without a game name
RateRequests ==
    {RateRequest(<<"G">>, 5, <<"t">>, Amy, <<>>),
     RateRequest(<<"G">>, 5, <<"t">>, Amy, toISOString(TickStep)),
     RateRequest(<<"G">>, 5, <<"t">>, Amy, <<"soon">>),
     RateRequest(blank, 5, <<"t">>, Amy, <<>>)}

\* the users of follow requests: a reader, the author, and none
Followers == {spBob, Amy, <<>>}
Followees == {amy, Bob, Amy}

\* follow edges made, removed and listed
NextFollow ==
    \/ \E a \in Followers, b \in Followees : Follow(a, b)
    \/ \E a \in Followers, b \in Followees : Unfollow(a, b)
    \/ \E u \in Followers : GetFollowing(u)
    \/ Tick

SpecFollow == Init /\ [][NextFollow]_vars

\* the author and a reader, as they name themselves in requests
Actors == {Amy, spBob}

\* rates of Amy liked, commented and their users followed, by Amy herself
\* and by Bob
NextSocial ==
    \/ PostRate(RateRequest(<<"G">>, 5, <<"t">>, Amy, <<>>))
    \/ \E id \in {rates[i].id : i \in DOMAIN rates}, u \in Actors : Like(id, u)
    \/ \E id \in {rates[i].id : i \in DOMAIN rates}, u \in Actors :
           PostComment(id, u, <<>>, <<"h", "i">>)
    \/ \E a \in Actors, b \in Followees : Follow(a, b)

SpecSocial == Init /\ [][NextSocial]_vars

\* the x-admin-token headers: none, the secret, another value
AdminHeaders == {<<>>, AdminSecret, <<"s">>}

\* rates with their likes, bookmarks, comments, reports and notifications,
\* removed by the administrator, and the process restarted
NextAdmin ==
    \/ PostRate(RateRequest(<<"G">>, 5, <<"t">>, Amy, <<>>))
    \/ \E id \in {rates[i].id : i \in DOMAIN rates} : Like(id, spBob)
    \/ \E id \in {rates[i].id : i \in DOMAIN rates} : Bookmark(id, Bob)
    \/ \E id \in {rates[i].id : i \in DOMAIN rates} :
           PostComment(id, spBob, <<>>, <<"h", "i">>)
    \/ \E id \in {rates[i].id : i \in DOMAIN rates} :
           Report(id, spBob, <<"s", "p", "a", "m">>)
    \/ Follow(spBob, amy)
    \/ \E h \in AdminHeaders,
          id \in {rates[i].id : i \in DOMAIN rates} \cup {<<"rate", 0, 0>>} :
           AdminDelete(h, id)
    \/ Restart

SpecAdmin == Init /\ [][NextAdmin]_vars

\* ADMIN_TOKEN: not set, white space, the secret, the secret after a space
Secrets == {<<>>, blank, AdminSecret, <<" ">> \o AdminSecret}

\* the server in either mode, with or without a secret
InitGate ==
    /\ dbEnabled \in BOOLEAN
    /\ adminToken \in Secrets
    /\ InitStores

\* rates posted and liked, and delete requests with and without the secret
NextGate ==
    \/ PostRate(RateRequest(<<"G">>, 5, <<"t">>, Amy, <<>>))
    \/ \E id \in {rates[i].id : i \in DOMAIN rates} : Like(id, spBob)
    \/ \E h \in AdminHeaders,
          id \in {rates[i].id : i \in DOMAIN rates} \cup {<<"rate", 0, 0>>} :
           AdminDelete(h, id)

SpecGate == InitGate /\ [][NextGate]_vars

\* a second author, and a name nobody has
Cy  == <<"C", "y">>
zed == <<"z">>

\* the following tab of Bob, of Amy, of a user who follows nobody and of a
\* username of white space, and a rater's page of a rater without rates
FollowingQueries ==
    {RateQuery("following", spBob, <<>>, <<>>),
     RateQuery("following", Amy, <<>>, <<>>),
     RateQuery("following", zed, <<>>, <<>>),
     RateQuery("following", blank, <<>>, <<>>),
     RateQuery("", <<>>, zed, <<>>)}

\* rates of two authors, one of them scheduled, follow edges made and
\* removed, and the following tab read while the clock advances
NextFollowing ==
    \/ \E q \in {RateRequest(<<"G">>, 5, <<"t">>, Amy, <<>>),
                  RateRequest(<<"G">>, 5, <<"t">>, Amy, toISOString(TickStep)),
                  RateRequest(<<"G">>, 5, <<"t">>, Cy, <<>>)} : PostRate(q)
    \/ \E p \in {<<spBob, Amy>>, <<Amy, Cy>>} : Follow(p[1], p[2])
    \/ Unfollow(spBob, Amy)
    \/ \E q \in FollowingQueries : GetRates(q)
    \/ Tick

SpecFollowing == Init /\ [][NextFollowing]_vars

\* the users of the notification requests: the author, a reader, and none
NotifyUsers == {Amy, spBob, <<>>}

\* the :id of a request: the id of a stored notification, or of none
NotificationIds ==
    {notifications[i].id : i \in DOMAIN notifications} \cup {<<"notif", 0, 0>>}

\* likes and follows notify Amy and Bob, who count and mark what they have
\* not read; rates are removed by the administrator and the process restarted
NextNotify ==
    \/ PostRate(RateRequest(<<"G">>, 5, <<"t">>, Amy, <<>>))
    \/ \E id \in {rates[i].id : i \in DOMAIN rates} : Like(id, spBob)
    \/ \E p \in {<<spBob, Amy>>, <<Amy, Bob>>} : Follow(p[1], p[2])
    \/ \E u \in NotifyUsers : UnreadCount(u)
    \/ \E id \in NotificationIds : MarkOneRead(id)
    \/ \E u \in NotifyUsers : MarkAllRead(u)
    \/ \E id \in {rates[i].id : i \in DOMAIN rates} : AdminDelete(AdminSecret, id)
    \/ Restart

SpecNotify == Init /\ [][NextNotify]_vars

\* ratings of 5, 7.5, 0.5, 10.5 and 11, a body and a game name of white space
RatingRequests ==
    {NumberRateRequest(<<"G">>, r, <<"t">>, Amy, <<>>) :
        r \in {number(5, 0), number(7, 5), number(0, 5), number(10, 5), number(11, 0)}}
    \cup {RateRequest(<<"G">>, 5, blank, Amy, <<>>),
          RateRequest(blank, 5, <<"t">>, Amy, <<>>)}

\* rates posted with good and bad fields while the clock advances
NextRate ==
    \/ \E q \in RatingRequests : PostRate(q)
    \/ GetRates(RateQuery("", <<>>, <<>>, <<>>))
    \/ Tick

SpecRate == Init /\ [][NextRate]_vars

gxy == <<"g", "@", "x", ".", "y">>            \* g@x.y

\* an account that was stored without a password
GoogleUser ==
    [id |-> <<"profile", 0>>, email |-> gxy, displayName |-> <<"G">>,
     username |-> <<"g">>, bio |-> <<>>, favoriteGameKinds |-> <<>>,
     feedPreference |-> "all", createdAt |-> 0, platform |-> "",
     passwordHash |-> null]

\* the server starts with the users file or table holding that account
InitLogin ==
    /\ dbEnabled \in BOOLEAN
    /\ adminToken = AdminSecret
    /\ now = 0
    /\ completeTokens = <<>>
    /\ users = mapSet(<<>>, gxy, GoogleUser)
    /\ issued = 0
    /\ rates = <<>>
    /\ follows = <<>>
    /\ likes = <<>>
    /\ bookmarks = <<>>
    /\ comments = <<>>
    /\ notifications = <<>>
    /\ reports = <<>>
    /\ created = [rate |-> 0, comment |-> 0, notif |-> 0, report |-> 0]
    /\ disk = [EmptyDisk EXCEPT !.users = IF dbEnabled THEN <<>> ELSE users]
    /\ resp = [op |-> "none", status |-> 0, body |-> NoBody]
    /\ inflight = [s \in Slots |-> Idle]
    /\ toast = NoToast

LoginEmails == {<<>>, axy, AXY, bxy, gxy}
LoginPasswords == {<<>>, <<"p">>, <<"q">>}

\* accounts are made with the passwords p and q and then logged in to
NextLogin ==
    \/ \E e \in {axy, bxy}, p \in {<<"p">>, <<"q">>} : Signup(e, p, FALSE)
    \/ \E n \in 1..MaxTokens, u \in {bob, amy} :
           Complete(generateToken(n), <<"A">>, u)
    \/ \E e \in LoginEmails, p \in LoginPasswords : Login(e, p)

SpecLogin == InitLogin /\ [][NextLogin]_vars

ToastMessages == {null, <<"N", "o">>}

\* messages shown and dismissed while time passes
NextToast ==
    \/ \E msg \in ToastMessages : showError(msg)
    \/ \E msg \in ToastMessages : showSuccess(msg)
    \/ dismiss
    \/ timerFires
    \/ timePasses

SpecToast == Init /\ [][NextToast]_vars

\* an id no rate has
NoSuchRate == <<"rate", 0, 0>>

\* the :id of a request: the id of a stored rate, or of none
RateIds == {rates[i].id : i \in DOMAIN rates} \cup {NoSuchRate}

LikeUsers == {spBob, amy, <<>>}
BookmarkUsers == {Bob, <<>>}

\* a comment text of 81 characters
LongText == [i \in 1..(SnippetLength + 1) |-> "x"]

CommentRequest(username, displayName, body) ==
    [username |-> username, displayName |-> displayName, body |-> body]

\* a long comment by a reader, a short one by the author, one without text
CommentRequests ==
    {CommentRequest(spBob, <<"B">>, LongText),
     CommentRequest(amy, <<>>, <<"h", "i">>),
     CommentRequest(bob, <<"B">>, blank)}

\* no parameter; a viewer; a bookmarks view; a blank username with a
\* bookmarks view; a rater's page seen by the rater; the following tab
RateQueries ==
    {RateQuery("", <<>>, <<>>, <<>>),
     RateQuery("", spBob, <<>>, <<>>),
     RateQuery("", <<>>, <<>>, Bob),
     RateQuery("", blank, <<>>, bob),
     RateQuery("", amy, Amy, <<>>),
     RateQuery("following", bob, <<>>, <<>>)}

Viewers == {<<>>, spBob, amy}

\* the ids of the stored rates
StoredIds == {rates[i].id : i \in DOMAIN rates}

\* the rate posted now
RateNow == RateRequest(<<"G">>, 5, <<"t">>, Amy, <<>>)

\* the feed as its readers see it: rates by Amy are liked and bookmarked by
\* Bob, commented by Amy, and read back
NextFeed ==
    \/ PostRate(RateNow)
    \/ \E id \in StoredIds : Like(id, spBob)
    \/ \E id \in StoredIds : Unlike(id, spBob)
    \/ \E id \in StoredIds : Bookmark(id, Bob)
    \/ \E id \in StoredIds : Unbookmark(id, Bob)
    \/ \E id \in StoredIds : PostComment(id, amy, <<>>, <<"h", "i">>)
    \/ \E q \in RateQueries : GetRates(q)
    \/ \E id \in RateIds, u \in Viewers : GetRateById(id, u)

SpecFeed == Init /\ [][NextFeed]_vars

\* rates, some of them scheduled, read back while the clock advances
NextView ==
    \/ \E q \in RateRequests : PostRate(q)
    \/ \E q \in RateQueries : GetRates(q)
    \/ \E id \in RateIds, u \in Viewers : GetRateById(id, u)
    \/ Tick

SpecView == Init /\ [][NextView]_vars

\* likes given and taken back
NextLike ==
    \/ \E q \in RateRequests : PostRate(q)
    \/ \E id \in RateIds, u \in LikeUsers : Like(id, u)
    \/ \E id \in RateIds, u \in LikeUsers : Unlike(id, u)

SpecLike == Init /\ [][NextLike]_vars

PairUsers == {bob, Bob, spBob}

\* like and bookmark requests for the same rate under spellings of one
\* username; no handler of the flat-file branch awaits, so each runs whole
NextPair ==
    \/ PostRate(RateNow)
    \/ \E id \in StoredIds, u \in PairUsers : Like(id, u)
    \/ \E id \in StoredIds : Unlike(id, Bob)
    \/ \E id \in StoredIds, u \in PairUsers : Bookmark(id, u)
    \/ \E id \in StoredIds : Unbookmark(id, bob)

SpecPair == Init /\ [][NextPair]_vars

\* completion requests handled at the same time, while their tokens live
NextFinish ==
    \/ Signup(axy, <<"p">>, FALSE)
    \/ \E s \in Slots, n \in 1..MaxTokens, u \in {bob, <<" ">>} :
           completeReceived(s, generateToken(n), <<"A">>, u)
    \/ \E s \in Slots : completeSelectEmail(s)
    \/ \E s \in Slots : completeSelectUsername(s)
    \/ \E s \in Slots : completeInsert(s)

SpecFinish == Init /\ [][NextFinish]_vars

\* like requests of the relational branch handled at the same time
NextRace ==
    \/ PostRate(RateNow)
    \/ \E s \in Slots, id \in RateIds, u \in {bob, Bob, amy, <<>>} :
           likeReceived(s, id, u)
    \/ \E s \in Slots : likeSelectRate(s)
    \/ \E s \in Slots : likeInsert(s)
    \/ \E s \in Slots : likeCounted(s)
    \/ \E s \in Slots : likeNotified(s)

SpecRace == Init /\ [][NextRace]_vars

\* comments
NextComment ==
    \/ \E q \in RateRequests : PostRate(q)
    \/ \E id \in RateIds, c \in CommentRequests :
           PostComment(id, c.username, c.displayName, c.body)
    \/ Tick

SpecComment == Init /\ [][NextComment]_vars

\* rates of three spellings of two games
GameRateRequests ==
    {RateRequest(g, 5, <<"t">>, Amy, <<>>) : g \in {<<"A">>, <<"a", " ">>, <<"B">>}}

RatesPath == <<Segment("api"), Segment("rates")>>
TrendingPath == <<Segment("api"), Segment("rates"), Segment("trending")>>
RatePath(id) == <<Segment("api"), Segment("rates"), id>>

\* the paths of the GET requests: the list, the trending games, a rate
GetPaths == {RatesPath, TrendingPath, <<Segment("api")>>}
            \cup {RatePath(id) : id \in RateIds}

\* rates are posted and GET requests are routed
NextRoute ==
    \/ \E q \in GameRateRequests : PostRate(q)
    \/ \E path \in GetPaths, u \in {<<>>, amy} : HttpGet(path, u)
    \/ Tick

SpecRoute == Init /\ [][NextRoute]_vars

----------------------------------------------------------------------------
(* Properties of the feed.                                                 *)

\* the number of records of the collection with that rate id
RecordsOf(collection, id) ==
    Cardinality({i \in DOMAIN collection : collection[i].rateId = id})

\* the viewer v, already trimmed and lower-cased, has a record for the rate
HasRecord(collection, id, v) ==
    /\ v # <<>>
    /\ \E i \in DOMAIN collection :
           collection[i].rateId = id /\ toLowerCase(collection[i].username) = v

\* the rate x of a response carries the counts of the stored records and the
\* flags of the viewer v
EnrichedFor(x, v) ==
    /\ x.likeCount = RecordsOf(likes, x.id)
    /\ x.bookmarkCount = RecordsOf(bookmarks, x.id)
    /\ x.commentCount = RecordsOf(comments, x.id)
    /\ x.liked = HasRecord(likes, x.id, v)
    /\ x.bookmarked = HasRecord(bookmarks, x.id, v)

\* the viewer username the request gives: username, or bookmarkedBy when no
\* username is sent
GivenViewer(q) ==
    toLowerCase(trim(IF q.username # <<>> THEN q.username ELSE q.bookmarkedBy))

\* the viewer when a username of white space only is passed over
NonBlankViewer(q) ==
    IF trim(q.username) # <<>> THEN toLowerCase(trim(q.username))
    ELSE toLowerCase(trim(q.bookmarkedBy))

C2_TrendingTopFive ==
    [][\A u \in {<<>>, amy} :
         HttpGet(TrendingPath, u)
         => /\ resp'.status = 200
            /\ resp'.body = trendingGames
            /\ Len(resp'.body) <= 5
            /\ \A i \in DOMAIN resp'.body :
                   /\ resp'.body[i].rank = i
                   /\ resp'.body[i].count =
                          Cardinality({k \in DOMAIN rates :
                              /\ getTime(rates[k].createdAt) <= now
                              /\ toLowerCase(rates[k].gameName)
                                     = toLowerCase(resp'.body[i].gameName)})
                   /\ \A j \in DOMAIN resp'.body :
                          i < j => resp'.body[i].count >= resp'.body[j].count]_vars

\* the instant a stored rate becomes visible
CreatedAtOf(id) ==
    getTime(rates[CHOOSE i \in DOMAIN rates : rates[i].id = id].createdAt)

\* C3: a rate whose createdAt is later than the clock is in no list returned
\* by GET /api/rates, and GET /api/rates/:id answers 404 for it with the
\* response it gives for an id no rate has; once the clock has reached
\* createdAt both endpoints return the rate, whatever else the state holds.
C3_FutureRatesHidden ==
    [][/\ \A q \in RateQueries :
            (resp'.op = "getRates" /\ GetRates(q))
            => /\ \A k \in DOMAIN resp'.body :
                      getTime(resp'.body[k].createdAt) <= now
               /\ q = RateQuery("", <<>>, <<>>, <<>>)
                  => \A id \in StoredIds :
                         CreatedAtOf(id) <= now
                         => \E k \in DOMAIN resp'.body : resp'.body[k].id = id
       /\ \A id \in RateIds, u \in Viewers :
            (resp'.op = "getRateById" /\ GetRateById(id, u))
            => IF id \in StoredIds /\ CreatedAtOf(id) <= now
               THEN resp'.status = 200 /\ resp'.body.id = id
               ELSE resp' = [op |-> "getRateById", status |-> 404,
                             body |-> "Rate not found"]]_vars

\* a rate scheduled at an earlier instant was returned when the clock
\* reached its createdAt
C3_Witness ==
    /\ resp.op = "getRateById"
    /\ resp.status = 200
    /\ getTime(resp.body.createdAt) = now
    /\ resp.body.id[2] < now

\* C4: a comment with a username and a text on an existing rate is stored
\* and answered 201 with the comment and the new commentCount; when the
\* commenter is not the author of the rate, exactly one unread notification
\* of type comment is added for the author, its body the first 80
\* characters of the text, with an ellipsis when the text is longer.
C4_CommentStoredAndNotified ==
    [][\A id \in StoredIds, c \in CommentRequests :
         (/\ resp'.op = "postComment"
          /\ toLowerCase(trim(c.username)) # <<>>
          /\ trim(c.body) # <<>>
          /\ PostComment(id, c.username, c.displayName, c.body))
         => LET text == trim(c.body)
                author == toLowerCase(trim(rates[CHOOSE i \in DOMAIN rates :
                                                     rates[i].id = id].raterHandle))
            IN  /\ resp'.status = 201
                /\ Len(comments') = Len(comments) + 1
                /\ resp'.body.comment = comments'[Len(comments')]
                /\ resp'.body.comment.body = text
                /\ resp'.body.commentCount = RecordsOf(comments', id)
                /\ IF author # toLowerCase(trim(c.username))
                   THEN /\ Len(notifications') = Len(notifications) + 1
                        /\ Tail(notifications') = notifications
                        /\ Head(notifications').type = "comment"
                        /\ ~Head(notifications').read
                        /\ Head(notifications').forUsername = author
                        /\ Head(notifications').body =
                               IF Len(text) > 80
                               THEN SubSeq(text, 1, 80) \o <<"...">>
                               ELSE text
                   ELSE notifications' = notifications]_vars

\* C10: a like request for a (rate, user) pair that already has a Like is
\* answered 409, leaves the likes and the likeCount of the rate as they
\* were, and creates no notification.
C10_DuplicateLikeRejected ==
    [][\A id \in RateIds, u \in LikeUsers :
         (/\ resp'.op = "like"
          /\ HasRecord(likes, id, toLowerCase(trim(u)))
          /\ Like(id, u))
         => /\ resp'.status = 409
            /\ likes' = likes
            /\ notifications' = notifications
            /\ resp'.body.likeCount = RecordsOf(likes, id)
            /\ RecordsOf(likes', id) = RecordsOf(likes, id)]_vars

\* a rate was liked, and the same like was sent again and refused
C10_Witness ==
    /\ resp.op = "like"
    /\ resp.status = 409
    /\ Len(likes) = 1
    /\ Len(notifications) = 1

\* the user a request names, as names are stored
Named(u) == toLowerCase(trim(u))

\* the author of a stored rate, as handles are compared
AuthorOf(id) == toLowerCase(trim(findRate(id).raterHandle))

\* C11: a like request answered 201 and made by a user other than the
\* author of the rate adds exactly one notification: unread, of type like,
\* addressed to the author, with the liker as actor, the id of the rate and
\* the game name of the rate; the notifications already there stay.
C11_LikeNotifiesAuthor ==
    [][\A id \in RateIds, u \in LikeUsers :
         (/\ resp'.op = "like"
          /\ resp'.status = 201
          /\ rateExists(id)
          /\ Like(id, u)
          /\ AuthorOf(id) # toLowerCase(trim(u)))
         => /\ Len(notifications') = Len(notifications) + 1
            /\ Tail(notifications') = notifications
            /\ Head(notifications').type = "like"
            /\ Head(notifications').read = FALSE
            /\ Head(notifications').forUsername = AuthorOf(id)
            /\ Head(notifications').actorUsername = toLowerCase(trim(u))
            /\ Head(notifications').rateId = id
            /\ Head(notifications').gameName = findRate(id).gameName
            /\ \A i \in DOMAIN notifications :
                   Head(notifications').id # notifications[i].id]_vars

\* Bob liked a rate of Amy for the game G, and Amy holds one unread like
\* notification with Bob as actor
C11_Witness ==
    /\ resp.op = "like"
    /\ resp.status = 201
    /\ Len(notifications) = 1
    /\ notifications[1].type = "like"
    /\ notifications[1].read = FALSE
    /\ notifications[1].forUsername = amy
    /\ notifications[1].actorUsername = bob
    /\ notifications[1].gameName = <<"G">>
    /\ HasRecord(likes, notifications[1].rateId, bob)

\* the like notifications a user caused on a rate
LikeNotificationsOf(collection, id, u) ==
    Cardinality({i \in DOMAIN collection :
                    /\ collection[i].type = "like"
                    /\ collection[i].rateId = id
                    /\ collection[i].actorUsername = u})

\* C13: unlike, bookmark and unbookmark requests, whatever their answer,
\* leave the notifications as they were, so a like notification outlives
\* its like; and a like answered 201 of a user other than the author adds a
\* like notification also when that user's earlier like of the same rate
\* has left one.
C13_UnlikeKeepsNotifications ==
    [][\A id \in RateIds, u \in {spBob, Bob} :
         /\ (/\ resp'.op \in {"unlike", "bookmark", "unbookmark"}
             /\ (Unlike(id, u) \/ Bookmark(id, u) \/ Unbookmark(id, u)))
            => notifications' = notifications
         /\ (/\ resp'.op = "like"
             /\ resp'.status = 201
             /\ rateExists(id)
             /\ Like(id, u)
             /\ AuthorOf(id) # toLowerCase(trim(u)))
            => LikeNotificationsOf(notifications', id, toLowerCase(trim(u)))
                   = LikeNotificationsOf(notifications, id, toLowerCase(trim(u))) + 1]_vars

\* Bob liked a rate of Amy, took the like back and liked it again: one like
\* is stored and Amy holds two like notifications for it
C13_Witness ==
    /\ resp.op = "like"
    /\ resp.status = 201
    /\ Len(likes) = 1
    /\ Len(bookmarks) = 0
    /\ LikeNotificationsOf(notifications, likes[1].rateId, bob) = 2
    /\ \A i \in DOMAIN notifications : notifications[i].forUsername = amy

\* a list of rates in which no rate comes before a rate created later
NewestFirst(list) ==
    \A i \in DOMAIN list, j \in DOMAIN list :
        i < j => getTime(list[i].createdAt) >= getTime(list[j].createdAt)

\* C18: every list answered by GET /api/rates is ordered newest-first by
\* createdAt, also when a scheduled rate was created before rates with an
\* earlier createdAt.
C18_ListNewestFirst ==
    resp.op = "getRates" => NewestFirst(resp.body)

\* no notification is addressed to the user who caused it
NoSelfNotification ==
    \A i \in DOMAIN notifications :
        notifications[i].forUsername # notifications[i].actorUsername

\* C12: no notification has a recipient equal to its actor: a like or a
\* comment by the author of the rate, the handle compared case-insensitively,
\* and a follow of oneself, which is refused with 400, leave the
\* notifications, and so the list and unread count of that user, unchanged.
C12_NoSelfNotification ==
    /\ []NoSelfNotification
    /\ [][/\ \A id \in {rates[i].id : i \in DOMAIN rates}, u \in Actors :
               (/\ resp'.op \in {"like", "postComment"}
                /\ AuthorOf(id) = Named(u)
                /\ (Like(id, u) \/ PostComment(id, u, <<>>, <<"h", "i">>)))
               => notifications' = notifications
          /\ \A a \in Actors, b \in Followees :
               (/\ resp'.op = "follow"
                /\ Named(a) = Named(b)
                /\ Follow(a, b))
               => /\ resp'.status = 400
                  /\ follows' = follows
                  /\ notifications' = notifications]_vars

\* Amy liked her own rate: the like is stored and nobody was notified
C12_Witness ==
    /\ resp.op = "like"
    /\ resp.status = 201
    /\ Len(likes) = 1
    /\ likes[1].username = amy
    /\ AuthorOf(likes[1].rateId) = amy
    /\ notifications = <<>>

\* C19: for the same stored data and the same query parameters, GET
\* /api/rates returns the same list of rates in flat-file mode and in
\* relational mode: whenever the request is served, the list the flat-file
\* branch computes is a list the relational branch can return (rates created
\* in the same millisecond come in any order there).
C19_SameListInBothModes ==
    [][\A q \in RateQueries :
         (/\ resp'.op = "getRates"
          /\ GetRates(q))
         => fileRateList(q) \in orderByCreatedAtDesc(dbRateRows(q))]_vars

----------------------------------------------------------------------------
(* Properties of moderation, checked under SpecAdmin and SpecGate.         *)

\* the records of a collection that do not carry the rate id
RecordsOfOthers(collection, id) ==
    SelectSeq(collection, LAMBDA x : ~("rateId" \in DOMAIN x /\ x.rateId = id))

\* every like, bookmark, comment and report is of a stored rate
RecordsReferenceRates ==
    \A collection \in {likes, bookmarks, comments, reports} :
        \A i \in DOMAIN collection :
            \E k \in DOMAIN rates : rates[k].id = collection[i].rateId

\* C14: an admin delete with the valid token for a stored rate removes the
\* rate and every like, bookmark, comment, report and notification that
\* carries its id and leaves the records of other rates as they were; and
\* in every reachable state each like, bookmark, comment and report is of a
\* stored rate.
C14_AdminDeleteCascades ==
    /\ []RecordsReferenceRates
    /\ [][\A h \in AdminHeaders, id \in {rates[i].id : i \in DOMAIN rates} :
            (/\ resp'.op = "adminDelete"
             /\ h = adminToken
             /\ AdminDelete(h, id))
            => /\ \A k \in DOMAIN rates' : rates'[k].id # id
               /\ rates' = SelectSeq(rates, LAMBDA r : r.id # id)
               /\ likes' = RecordsOfOthers(likes, id)
               /\ bookmarks' = RecordsOfOthers(bookmarks, id)
               /\ comments' = RecordsOfOthers(comments, id)
               /\ reports' = RecordsOfOthers(reports, id)
               /\ notifications' = RecordsOfOthers(notifications, id)]_vars

\* the secret the server holds: ADMIN_TOKEN without the white space around it
ServerSecret == trim(adminToken)

\* C15: an admin delete is answered 401 and changes no collection and no
\* file unless the x-admin-token header equals the secret the server holds
\* and that secret is not empty; without a secret every request, also one
\* with an empty or missing header, is answered 401.
C15_AdminDeleteNeedsSecret ==
    [][\A h \in AdminHeaders,
          id \in {rates[i].id : i \in DOMAIN rates} \cup {<<"rate", 0, 0>>} :
         (/\ resp'.op = "adminDelete"
          /\ AdminDelete(h, id))
         => /\ (ServerSecret = <<>> \/ h # ServerSecret)
               => /\ resp'.status = 401
                  /\ UNCHANGED <<rates, follows, likes, bookmarks, comments,
                                 notifications, reports, users, disk>>
            /\ (ServerSecret # <<>> /\ h = ServerSecret)
               => resp'.status # 401]_vars

\* no secret is configured and a delete request for a stored, liked rate was
\* answered 401
C15_Witness ==
    /\ ServerSecret = <<>>
    /\ resp.op = "adminDelete"
    /\ resp.status = 401
    /\ Len(rates) = 1
    /\ Len(likes) = 1
    /\ Len(notifications) = 1

----------------------------------------------------------------------------
(* Properties of the follow graph, checked under SpecFollow.               *)

\* the number of stored edges from a to b, both lower-cased
Edges(collection, a, b) ==
    Cardinality({i \in DOMAIN collection :
                    /\ toLowerCase(collection[i].followerUsername) = a
                    /\ toLowerCase(collection[i].followeeUsername) = b})

\* the users u follows
FolloweesOf(collection, u) ==
    {collection[i].followeeUsername :
        i \in {k \in DOMAIN collection :
                  toLowerCase(collection[k].followerUsername) = u}}

\* C16: a DELETE /api/follow for a stored pair is answered 200 and removes
\* the pair and nothing else, so a GET /api/following of the follower, which
\* lists exactly the followees stored for the follower, no longer has the
\* followee; a DELETE for a pair that is not stored, such as a second
\* DELETE, is answered 404 and changes nothing.
C16_FollowUnfollowRoundTrip ==
    [][/\ \A a \in Followers, b \in Followees :
            (/\ resp'.op = "unfollow"
             /\ Named(a) # <<>>
             /\ Unfollow(a, b))
            => IF Edges(follows, Named(a), Named(b)) > 0
               THEN /\ resp'.status = 200
                    /\ Edges(follows', Named(a), Named(b)) = 0
                    /\ Named(b) \notin FolloweesOf(follows', Named(a))
                    /\ Len(follows') = Len(follows) - 1
                    /\ notifications' = notifications
               ELSE /\ resp'.status = 404
                    /\ follows' = follows
                    /\ notifications' = notifications
                    /\ disk' = disk
       /\ \A u \in Followers :
            (/\ resp'.op = "getFollowing"
             /\ Named(u) # <<>>
             /\ GetFollowing(u))
            => /\ resp'.status = 200
               /\ {resp'.body[i] : i \in DOMAIN resp'.body}
                      = FolloweesOf(follows, Named(u))
               /\ follows' = follows]_vars

\* a follow was made and removed, and a further DELETE was answered 404
C16_Witness ==
    /\ resp.op = "unfollow"
    /\ resp.status = 404
    /\ follows = <<>>
    /\ Len(notifications) = 1
    /\ notifications[1].type = "follow"

\* no pair is stored twice and nobody follows themselves
FollowSetWellFormed ==
    \A i \in DOMAIN follows :
        /\ toLowerCase(follows[i].followerUsername)
               # toLowerCase(follows[i].followeeUsername)
        /\ Edges(follows, toLowerCase(follows[i].followerUsername),
                 toLowerCase(follows[i].followeeUsername)) = 1

\* C17: the follow set never holds a pair twice nor a pair of a user with
\* themselves, compared case-insensitively; a follow answered 201 adds one
\* edge and exactly one notification of type follow, addressed to the
\* followee with the follower as actor; a follow of a stored pair is
\* answered 409 and adds neither an edge nor a notification.
C17_FollowEdgesUnique ==
    /\ []FollowSetWellFormed
    /\ [][\A a \in Followers, b \in Followees :
            (/\ resp'.op = "follow"
             /\ Follow(a, b))
            => /\ resp'.status = 201
                  => /\ Edges(follows', Named(a), Named(b)) = 1
                     /\ Len(follows') = Len(follows) + 1
                     /\ Len(notifications') = Len(notifications) + 1
                     /\ Tail(notifications') = notifications
                     /\ Head(notifications').type = "follow"
                     /\ Head(notifications').read = FALSE
                     /\ Head(notifications').forUsername = Named(b)
                     /\ Head(notifications').actorUsername = Named(a)
               /\ Edges(follows, Named(a), Named(b)) > 0
                  => /\ resp'.status = 409
                     /\ follows' = follows
                     /\ notifications' = notifications]_vars

\* a stored pair was followed again and the request refused
C17_Witness ==
    /\ resp.op = "follow"
    /\ resp.status = 409
    /\ Len(follows) = 1
    /\ Len(notifications) = 1
    /\ notifications[1].type = "follow"
    /\ notifications[1].forUsername = amy
    /\ notifications[1].actorUsername = bob

----------------------------------------------------------------------------
(* Properties of the following tab, checked under SpecFollowing.           *)

\* the ids of the rates that can be seen now and whose author u follows
FollowedVisibleIds(u) ==
    {rates[k].id : k \in {i \in DOMAIN rates :
        /\ getTime(rates[i].createdAt) <= now
        /\ \E j \in DOMAIN follows :
               /\ toLowerCase(follows[j].followerUsername) = u
               /\ toLowerCase(follows[j].followeeUsername)
                      = toLowerCase(rates[i].raterHandle)}}

\* the answer lists exactly the given rates, each once
ListsExactly(body, ids) ==
    /\ {body[i].id : i \in DOMAIN body} = ids
    /\ Len(body) = Cardinality(ids)

\* the ids of the rates that can be seen now
VisibleIds ==
    {rates[k].id : k \in {i \in DOMAIN rates : getTime(rates[i].createdAt) <= now}}

\* a raterHandle filter that matches no rate is answered with an empty list
UnmatchedHandleIsEmpty(q, body) ==
    (/\ q.tab # "following"
     /\ \A k \in DOMAIN rates :
            toLowerCase(rates[k].raterHandle) # Named(q.raterHandle))
    => body = <<>>

----------------------------------------------------------------------------
(* Properties of the flat files, checked under SpecAdmin.                  *)

\* C27: in flat-file mode a request answered with a status of 400 or more
\* leaves users, rates, follows, likes, bookmarks, comments, notifications
\* and reports as they were before it.
C27_ErrorsChangeNothing ==
    [][(~dbEnabled /\ resp'.status >= 400)
         => UNCHANGED <<users, rates, follows, likes, bookmarks, comments,
                        notifications, reports>>]_vars

\* what the files hold is what the collections in memory hold
DiskMirrorsMemory ==
    /\ disk.users = users
    /\ disk.rates = rates
    /\ disk.follows = follows
    /\ disk.likes = likes
    /\ disk.bookmarks = bookmarks
    /\ disk.notifications = notifications
    /\ disk.reports = reports

\* C28: in flat-file mode the files hold the collections of memory after
\* every request, and a restart leaves users, rates, follows, likes,
\* bookmarks, comments, notifications and reports as they were before it.
C28_RestartRestoresAll ==
    /\ [](~dbEnabled => DiskMirrorsMemory)
    /\ [][(~dbEnabled /\ resp'.op = "restart")
            => UNCHANGED <<users, rates, follows, likes, bookmarks, comments,
                           notifications, reports>>]_vars

----------------------------------------------------------------------------
(* Properties of the toast, checked under SpecToast.                       *)

\* C30: while a message is shown exactly one timer is pending, the one the
\* most recent show call set, due 5 seconds after that call, and that time
\* has not passed; no more than one timer is ever pending; a message is
\* cleared only by a dismissal or when 5 seconds have passed since the most
\* recent show call, and a dismissal clears it at once and leaves no timer.
C30_ToastClearedAfterFiveSeconds ==
    /\ [](/\ Cardinality(toast.timers) <= 1
          /\ (toast.message # <<>>
                => (/\ toast.timers = {[id |-> toast.timerRef,
                                        due |-> toast.shownAt + 5000]}
                    /\ toast.clock <= toast.shownAt + 5000)))
    /\ [][/\ ((toast.message # <<>> /\ toast'.message = <<>>)
                => (dismiss \/ toast.clock = toast.shownAt + 5000))
           /\ (dismiss => (toast'.message = <<>> /\ toast'.timers = {}))]_vars

\* a second message was shown while the first was up, and its own timer
\* has cleared it
C30_Witness ==
    /\ toast.made = 2
    /\ toast.message = <<>>
    /\ toast.timers = {}
    /\ toast.shownAt \in 1..4999
    /\ toast.clock = toast.shownAt + 5000

----------------------------------------------------------------------------
(* Properties of like and bookmark requests for one pair, under SpecPair.  *)

PairsUnique(array) ==
    \A i, j \in DOMAIN array :
        (/\ array[i].rateId = array[j].rateId
         /\ toLowerCase(array[i].username) = toLowerCase(array[j].username))
        => i = j

\* C24: in flat-file mode, whatever the order in which like and bookmark
\* requests are handled, two for the same rate and user among them, likes
\* never holds two entries with the same rate id and usernames equal
\* without regard to case, and neither does bookmarks.
C24_FilePairsUnique ==
    ~dbEnabled => (PairsUnique(likes) /\ PairsUnique(bookmarks))

\* a rate is liked and bookmarked by bob, and a second bookmark request for
\* the pair has been refused
C24_Witness ==
    /\ ~dbEnabled
    /\ Len(likes) = 1
    /\ Len(bookmarks) = 1
    /\ likes[1].rateId = bookmarks[1].rateId
    /\ resp.op = "bookmark"
    /\ resp.status = 409

----------------------------------------------------------------------------
(* Properties of like requests handled at once, checked under SpecRace.    *)

\* both requests are like requests for one rate and user, both found the
\* rate, and both have been answered
BothLiked(a, b) ==
    /\ a # b
    /\ inflight[a].pc = "done" /\ inflight[b].pc = "done"
    /\ inflight[a].op = "like" /\ inflight[b].op = "like"
    /\ inflight[a].rateId = inflight[b].rateId
    /\ inflight[a].u = inflight[b].u
    /\ inflight[a].status \notin {400, 404}
    /\ inflight[b].status \notin {400, 404}

\* C25: in relational mode, when two like requests for the same rate and
\* user have been handled, their steps interleaved in any way, there is
\* exactly one like row for the pair, one of the requests was answered 201
\* and the other 409, and there is exactly one like notification for the
\* pair when the user who liked is not the author of the rate, and none
\* when it is the author.
C25_ConcurrentLikesOneRow ==
    \A a, b \in Slots :
        BothLiked(a, b)
        => LET id == inflight[a].rateId
               u == inflight[a].u
           IN  /\ dbEnabled
               /\ Cardinality({i \in DOMAIN likes :
                      likes[i].rateId = id /\ likes[i].username = u}) = 1
               /\ {inflight[a].status, inflight[b].status} = {201, 409}
               /\ Cardinality({i \in DOMAIN notifications :
                      /\ notifications[i].type = "like"
                      /\ notifications[i].rateId = id
                      /\ notifications[i].actorUsername = u})
                    = IF AuthorOf(id) # u THEN 1 ELSE 0

\* two requests of bob for one rate of amy have both been answered, the
\* second having begun before the first was answered
C25_Witness ==
    /\ BothLiked(1, 2)
    /\ inflight[1].u = bob
    /\ inflight[1].status = 409
    /\ inflight[2].status = 201
    /\ resp.status = 409

----------------------------------------------------------------------------
(* Properties of completion requests handled at once, under SpecFinish.    *)

\* both requests carried one token, which was in the map and had not
\* expired when each was received, and both have been answered
BothCompleted(a, b) ==
    /\ a # b
    /\ inflight[a].pc = "done" /\ inflight[b].pc = "done"
    /\ inflight[a].op = "complete" /\ inflight[b].op = "complete"
    /\ inflight[a].completeToken = inflight[b].completeToken
    /\ inflight[a].valid /\ inflight[b].valid

\* a stored user is never written a second time
UsersWrittenOnce ==
    [][\A e \in DOMAIN users : e \in DOMAIN users' /\ users'[e] = users[e]]_vars

\* C26 as stated: of two completion requests with the same valid token,
\* their steps interleaved in any way, at most one creates the user of the
\* email of the token, at most one is answered 200, and the token is no
\* longer in the map when both have been answered.
C26_ConcurrentCompleteDropsToken ==
    /\ UsersWrittenOnce
    /\ [](\A a, b \in Slots :
            BothCompleted(a, b)
            => /\ ~(inflight[a].status = 200 /\ inflight[b].status = 200)
               /\ inflight[a].completeToken \notin DOMAIN completeTokens)

\* C26, amended: of two completion requests with the same valid token,
\* their steps interleaved in any way, at most one creates the user of the
\* email of the token, at most one is answered 200, and the token is no
\* longer in the map when both have been answered unless each of them was
\* answered 400 or 500; a request answered 200 leaves that user stored.
C26_ConcurrentComplete ==
    /\ UsersWrittenOnce
    /\ [](\A a, b \in Slots :
            BothCompleted(a, b)
            => /\ ~(inflight[a].status = 200 /\ inflight[b].status = 200)
               /\ inflight[a].status = 200
                    => inflight[a].data.email \in DOMAIN users
               /\ {inflight[a].status, inflight[b].status} \subseteq {400, 500}
                    \/ inflight[a].completeToken \notin DOMAIN completeTokens)

\* relational mode: both requests were being handled at once, one stored
\* the user and the INSERT of the other was refused
C26_Witness ==
    /\ dbEnabled
    /\ BothCompleted(1, 2)
    /\ inflight[1].status = 500
    /\ inflight[2].status = 200
    /\ axy \in DOMAIN users
    /\ completeTokens = <<>>

----------------------------------------------------------------------------
(* Properties of login, checked under SpecLogin.                           *)

\* C22: a login request is answered with the profile exactly when a user is
\* stored for the trimmed, lower-cased email whose password hash is not
\* null and is the digest of the password sent; an unknown email or another
\* digest is answered 401, an account without a password hash 400; the
\* profile answered is the stored user without the password hash, and
\* nothing changes.
C22_LoginChecksDigest ==
    [][\A e \in LoginEmails, p \in LoginPasswords :
         (/\ resp'.op = "login"
          /\ Login(e, p))
         => LET key == toLowerCase(trim(e))
                known == key \in DOMAIN users
            IN  /\ resp'.status = 200
                      <=> /\ known
                          /\ users[key].passwordHash # <<>>
                          /\ users[key].passwordHash = <<"sha256">> \o p
                /\ resp'.status = 200
                      => /\ "passwordHash" \notin DOMAIN resp'.body.profile
                         /\ \A f \in DOMAIN resp'.body.profile :
                                resp'.body.profile[f] = users[key][f]
                         /\ resp'.body.profile.email = key
                /\ (e # <<>> /\ p # <<>> /\ ~known) => resp'.status = 401
                /\ (e # <<>> /\ p # <<>> /\ known /\ users[key].passwordHash = <<>>)
                      => resp'.status = 400
                /\ (/\ e # <<>> /\ p # <<>> /\ known
                    /\ users[key].passwordHash # <<>>
                    /\ users[key].passwordHash # <<"sha256">> \o p)
                      => resp'.status = 401
                /\ UNCHANGED <<users, completeTokens, issued, disk>>
                /\ UNCHANGED storeVars]_vars

\* the account of a@x.y was completed and its owner has logged in
C22_Witness ==
    /\ resp.op = "login"
    /\ resp.status = 200
    /\ resp.body.profile.email = axy
    /\ axy \in DOMAIN users
    /\ gxy \in DOMAIN users

----------------------------------------------------------------------------
(* Properties of POST /api/rates, checked under SpecRate.                  *)

\* a whole rating from 1 to 10, a body and a game name that are not empty
WellFormedRate(r) ==
    /\ r.rating % 10 = 0
    /\ r.rating >= 10 /\ r.rating <= 100
    /\ r.body # <<>>
    /\ r.gameName # <<>>

\* C23: POST /api/rates stores a rate only when the game name and the body
\* are not empty after trimming and the rating is a number from 1 to 10, and
\* otherwise answers 400 and leaves the rates as they were; and every stored
\* rate has a whole rating from 1 to 10, a body and a game name that are not
\* empty.
C23_StoredRatesValid ==
    /\ [](\A i \in DOMAIN rates : WellFormedRate(rates[i]))
    /\ [][\A q \in RatingRequests :
            (/\ resp'.op = "postRate"
             /\ PostRate(q))
            => IF /\ trim(q.gameName) # <<>>
                  /\ trim(q.body) # <<>>
                  /\ q.rating >= 10 /\ q.rating <= 100
               THEN rates' # rates => Len(rates') = Len(rates) + 1
               ELSE resp'.status = 400 /\ rates' = rates]_vars

----------------------------------------------------------------------------
(* Properties of notifications, checked under SpecNotify.                  *)

\* the positions of the notifications addressed to u that are not read
UnreadOf(collection, u) ==
    {i \in DOMAIN collection :
        toLowerCase(collection[i].forUsername) = u /\ collection[i].read = FALSE}

\* C21: a read-all request for u is answered 200, sets read on exactly the
\* unread notifications addressed to u and reports their number as marked;
\* every other notification stays as it was; afterwards u has no unread
\* notification, the unread count answered for u is the number of unread
\* notifications addressed to u, so 0, and a second read-all reports 0.
C21_ReadAllMarksOwnUnread ==
    [][\A u \in NotifyUsers :
         /\ (/\ resp'.op = "readAll"
             /\ Named(u) # <<>>
             /\ MarkAllRead(u))
            => /\ resp'.status = 200
               /\ resp'.body.marked = Cardinality(UnreadOf(notifications, Named(u)))
               /\ DOMAIN notifications' = DOMAIN notifications
               /\ \A i \in DOMAIN notifications :
                      IF i \in UnreadOf(notifications, Named(u))
                      THEN notifications'[i] = [notifications[i] EXCEPT !.read = TRUE]
                      ELSE notifications'[i] = notifications[i]
               /\ UnreadOf(notifications', Named(u)) = {}
               /\ UnreadOf(notifications, Named(u)) = {}
                      => resp'.body.marked = 0 /\ notifications' = notifications
         /\ (/\ resp'.op = "unreadCount"
             /\ Named(u) # <<>>
             /\ UnreadCount(u))
            => resp'.body.count = Cardinality(UnreadOf(notifications, Named(u)))]_vars

\* Amy has marked her one unread notification and the one of Bob is unread
C21_Witness ==
    /\ resp.op = "readAll"
    /\ resp.status = 200
    /\ resp.body.marked = 1
    /\ Len(notifications) = 2
    /\ \E i \in DOMAIN notifications :
           notifications[i].forUsername = amy /\ notifications[i].read
    /\ \E i \in DOMAIN notifications :
           notifications[i].forUsername = bob /\ ~notifications[i].read

\* the read flag of a notification does not go back to false
StaysRead(old, new) == old.read => new.read

\* C29: in every step each stored notification either stays, with a read
\* flag that has not changed from true to false, or is removed by the admin
\* deletion of the rate it references; the flag changes only in answers of
\* mark-one-read and read-all; a notification without a rate id is never
\* removed.
C29_NotificationLifecycle ==
    [][\A i \in DOMAIN notifications :
         LET old == notifications[i]
             kept == {k \in DOMAIN notifications' : notifications'[k].id = old.id}
         IN  /\ kept = {}
                => /\ resp'.op = "adminDelete"
                   /\ "rateId" \in DOMAIN old
                   /\ \E r \in DOMAIN rates : rates[r].id = old.rateId
                   /\ \A r \in DOMAIN rates' : rates'[r].id # old.rateId
             /\ \A k \in kept :
                   /\ StaysRead(old, notifications'[k])
                   /\ notifications'[k].read # old.read
                          => resp'.op \in {"markRead", "readAll"}
                   /\ [notifications'[k] EXCEPT !.read = old.read] = old]_vars

\* a follow notification that was read has outlived a restart and the
\* deletion of a rate
C29_Witness ==
    /\ resp.op = "restart"
    /\ rates = <<>>
    /\ created.rate > 0
    /\ \E i \in DOMAIN notifications :
           notifications[i].type = "follow" /\ notifications[i].read

----------------------------------------------------------------------------
(* Properties of the signup flow, checked under SpecAuth.                  *)

\* C5: in every reachable state no two User records share an email and no
\* two share a username when usernames are compared case-insensitively.
C5_UniqueEmailAndUsername ==
    \A e1 \in DOMAIN users, e2 \in DOMAIN users :
        e1 # e2 =>
            /\ users[e1].email # users[e2].email
            /\ toLowerCase(users[e1].username) # toLowerCase(users[e2].username)

\* the request is complete, its token is in the map, not expired, and its
\* email has no account yet
ValidCompletion(t, d, u) ==
    /\ t # <<>> /\ d # <<>> /\ u # <<>>
    /\ mapHas(completeTokens, t)
    /\ now <= completeTokens[t].expiresAt
    /\ ~mapHas(users, completeTokens[t].email)

\* C6: in relational mode a completion request whose username is already
\* taken (case-insensitive) is answered 409 and leaves the token in the map,
\* so that the same token can be used again with a free username.
C6_TakenUsernameKeepsToken ==
    [][\A r \in CompleteRequests :
         (/\ dbEnabled
          /\ resp'.op = "complete"
          /\ ValidCompletion(r.completeToken, r.displayName, r.username)
          /\ \E e \in DOMAIN users :
                 toLowerCase(users[e].username) = toLowerCase(handleOf(r.username))
          /\ Complete(r.completeToken, r.displayName, r.username))
         => (resp'.status = 409 /\ mapHas(completeTokens', r.completeToken))]_vars

\* the token was issued, and is no longer usable: it is gone from the map,
\* or its expiry instant has passed
StaleToken(t, tokens, n, clock) ==
    /\ \E k \in 1..n : t = generateToken(k)
    /\ mapHas(tokens, t) => clock > tokens[t].expiresAt

\* C7 as stated: a completion request carrying a token whose expiry instant
\* has passed is rejected with 400, creates no user and removes the token.
C7_ExpiredTokenRemoved ==
    [][\A r \in CompleteRequests :
         (/\ resp'.op = "complete"
          /\ mapHas(completeTokens, r.completeToken)
          /\ now > completeTokens[r.completeToken].expiresAt
          /\ Complete(r.completeToken, r.displayName, r.username))
         => (/\ resp'.status = 400
             /\ users' = users
             /\ ~mapHas(completeTokens', r.completeToken))]_vars

\* C7 amended: a token expires 10 minutes after it is issued; a completion
\* request carrying a token whose expiry instant has passed is rejected with
\* 400 and creates no user; it removes the token when it carries a display
\* name and a username, and leaves it in place otherwise; every later
\* completion request with that token is rejected with 400 too.
C7_ExpiredTokenRejected ==
    [][/\ \A t \in TokenInputs :
            (~mapHas(completeTokens, t) /\ mapHas(completeTokens', t))
            => completeTokens'[t].expiresAt = now + (10 * 60 * 1000)
       /\ \A t \in TokenInputs :
            StaleToken(t, completeTokens, issued, now)
            => StaleToken(t, completeTokens', issued', now')
       /\ \A r \in CompleteRequests :
            (/\ resp'.op = "complete"
             /\ StaleToken(r.completeToken, completeTokens, issued, now)
             /\ Complete(r.completeToken, r.displayName, r.username))
            => (/\ resp'.status = 400
                /\ users' = users
                /\ (r.displayName # <<>> /\ r.username # <<>>)
                   => ~mapHas(completeTokens', r.completeToken)
                /\ (r.displayName = <<>> \/ r.username = <<>>)
                   => completeTokens' = completeTokens)]_vars

\* an expired token was presented and removed
C7_Witness ==
    /\ issued >= 1
    /\ ~mapHas(completeTokens, generateToken(1))
    /\ resp.op = "complete"
    /\ resp.status = 400
    /\ resp.body = "Session expired. Please start again."

\* C8: a completion token materialises at most one User: a successful
\* completion writes exactly the User record of the token's email and
\* deletes the token, no other completion writes a user, and every later
\* completion request with a token that has left the map is rejected with
\* 400 and leaves the users unchanged.
C8_TokenUsedOnce ==
    [][\A r \in CompleteRequests :
         LET t == r.completeToken
             consumed == /\ \E k \in 1..issued : t = generateToken(k)
                         /\ ~mapHas(completeTokens, t)
             handled == Complete(t, r.displayName, r.username)
         IN  /\ (resp'.op = "complete" /\ resp'.status = 200 /\ handled)
                => (/\ mapHas(completeTokens, t)
                    /\ ~mapHas(completeTokens', t)
                    /\ ~mapHas(users, completeTokens[t].email)
                    /\ DOMAIN users' = DOMAIN users \cup {completeTokens[t].email}
                    /\ users'[completeTokens[t].email].email = completeTokens[t].email
                    /\ \A e \in DOMAIN users : users'[e] = users[e])
             /\ (resp'.op = "complete" /\ resp'.status # 200 /\ handled)
                => users' = users
             /\ consumed => ~mapHas(completeTokens', t)
             /\ (resp'.op = "complete" /\ consumed /\ handled)
                => (resp'.status = 400 /\ users' = users)]_vars

\* the first token made a user, and a later completion request was rejected
C8_Witness ==
    /\ issued = 1
    /\ DOMAIN users # {}
    /\ ~mapHas(completeTokens, generateToken(1))
    /\ resp.op = "complete"
    /\ resp.status = 400
    /\ resp.body = "Invalid or expired session"

\* the signup request changes nothing but the response
SignupChangesNothing ==
    UNCHANGED <<dbEnabled, adminToken, inflight, toast, now, completeTokens, users, issued, disk, storeVars>>

\* C9 as stated: signup returns 400 for an email with invalid syntax or whose
\* domain has no MX record, and 409 for an email that already owns an
\* account; in all three cases no token is added and nothing else changes.
C9_SignupRejections ==
    [][\A r \in SignupRequests :
         (resp'.op = "signup" /\ Signup(r.email, r.password, r.lookupFails)) =>
            LET e == toLowerCase(trim(r.email))
                badSyntax == ~emailSyntaxOk(e)
                noMx == emailSyntaxOk(e) /\ emailDomain(e) \notin MxDomains
                owned == mapHas(users, e)
            IN  /\ badSyntax => resp'.status = 400
                /\ noMx => resp'.status = 400
                /\ owned => resp'.status = 409
                /\ (badSyntax \/ noMx \/ owned) => SignupChangesNothing]_vars

\* C9 amended: signup returns 400 for an email with invalid syntax or whose
\* domain has no MX record; for an email that already owns an account it
\* returns 409 when the request carries a password and the MX lookup
\* succeeds, and 400 otherwise; in all these cases no token is added and
\* nothing else changes.
C9_SignupRejectionsOrdered ==
    [][\A r \in SignupRequests :
         (resp'.op = "signup" /\ Signup(r.email, r.password, r.lookupFails)) =>
            LET e == toLowerCase(trim(r.email))
                badSyntax == ~emailSyntaxOk(e)
                noMx == emailSyntaxOk(e) /\ emailDomain(e) \notin MxDomains
                owned == mapHas(users, e)
            IN  /\ badSyntax => resp'.status = 400
                /\ noMx => resp'.status = 400
                /\ (owned /\ r.password # <<>> /\ ~r.lookupFails) => resp'.status = 409
                /\ (owned /\ (r.password = <<>> \/ r.lookupFails)) => resp'.status = 400
                /\ (badSyntax \/ noMx \/ owned) => SignupChangesNothing]_vars

\* a signup for an email that owns an account was answered 409
C9_Witness ==
    /\ resp.op = "signup"
    /\ resp.status = 409
    /\ DOMAIN users # {}

====
